---- MODULE Spec2Model ----
(***************************************************************************)
(* PriceGoUpBot: the order-to-wallet funds lifecycle.                      *)
(*                                                                         *)
(* The record store (volume_orders, volume_tasks, transactions), the       *)
(* on-chain balances of the derived addresses, the sweep pass              *)
(* (SweeperService), the scheduling pass (api/volume-processor +           *)
(* VolumeEngineService), the bot's order handlers and the admin routes.    *)
(* Amounts are lamports; total_cost is kept in hundredths of SOL, the      *)
(* precision calculateOrderCost rounds to.                                 *)
(***************************************************************************)
EXTENDS Integers, Sequences, FiniteSets, TLC

(***************************************************************************)
(* Bounds of the model.                                                    *)
(***************************************************************************)
UserFunds == 1600000000
MaxDeposits == 2
MaxTime == 2
MaxFaults == 2
MaxPasses == 2
MaxMinutes == 11

(***************************************************************************)
(* Program constants.                                                      *)
(***************************************************************************)
LAMPORTS_PER_SOL == 1000000000
FEE_BPS == 500
MIN_SWEEP_LAMPORTS == 1000000
NetworkFeeReserve == 10000
BudgetReserve == 5000000
SellFeeLamports == 10000000
TotalCycles == 5
RetryCooldownMinutes == 5
BaseCostPerTask == 150
PaymentToleranceCentiSol == 1
WeekMinutes == 10080
MinTradeLamports == 50000000
MaxTradeLamports == 200000000
\* volume_target / tasks_count of the smallest package, a one-task order (USD).
VolumePerTask == 75000
TradingMinBalance == 5000000

\* The base fee the chain charges the fee payer of a one-signature transfer:
\* the sweep keeps NetworkFeeReserve for its two transfers.
TxFee == NetworkFeeReserve \div 2

OrderSeq == <<"o1", "o2">>
Orders == {OrderSeq[i] : i \in DOMAIN OrderSeq}

\* A timestamp column that is null.
NoTime == -999999999

Max(a, b) == IF a >= b THEN a ELSE b
Min(a, b) == IF a <= b THEN a ELSE b

\* floor(x * n / d) without leaving 32 bits (x up to 2^31, n < d <= 10000).
MulDiv(x, n, d) == (x \div d) * n + ((x % d) * n) \div d

\* x * n / d is not a whole number.
MulDivFrac(x, n, d) == ((x % d) * n) % d # 0

(***************************************************************************)
(* State.                                                                  *)
(***************************************************************************)
VARIABLES
    orders,     \* volume_orders: order id -> row (status "absent": no row)
    tasks,      \* volume_tasks: sequence of rows, the task id is the index
    txs,        \* transactions: task id -> types of its rows, newest first
    payBal,     \* lamports at each order's payment address
    budgetBal,  \* lamports at each order's per-order ops-budget address
    feesBal,    \* lamports at TREASURY_FEES_ADDRESS
    opsBal,     \* lamports at TREASURY_OPERATIONS_ADDRESS
    walletBal,  \* task id -> lamports at the task's trading wallet
    tokenBal,   \* task id -> tokens of the order's token at the trading wallet
    now,        \* minutes
    session,    \* the order held in the user's session (orderData), or "none"
    buttons,    \* order id -> the callback buttons the user has been shown
    sweepRes,   \* result of the last sweep pass
    procRes,    \* result of the last scheduling pass
    fundLog,    \* the last ensureTradingWalletFunded call
    userBal,    \* lamports at the customer's own wallet
    deposits,   \* payments the customer has sent so far
    hist,       \* order id -> transfers sent out of its payment address
    faults,     \* network and database faults so far
    feeBps,     \* config: FEE_BPS as the environment sets it (0: not a number)
    masterSeed, \* config: WALLET_MASTER_SEED ("": not configured)
    opsSecret,  \* admin config: TREASURY_OPERATIONS_SECRET_KEY ("": not set)
    returned,   \* what the order service's last calls gave, newest first
    pc          \* overlapping passes and handlers: position and locals

vars == <<orders, tasks, txs, payBal, budgetBal, feesBal, opsBal, walletBal,
          tokenBal, now, session, buttons, sweepRes, procRes, fundLog, userBal,
          deposits, hist, faults, feeBps, masterSeed, opsSecret, returned,
          pc>>

taskVars == <<tasks, txs, walletBal, tokenBal>>
treasuryVars == <<feesBal, opsBal, budgetBal>>
uiVars == <<session, buttons, returned>>
resVars == <<sweepRes, procRes, fundLog>>
envVars == <<userBal, deposits, faults, feeBps, masterSeed, opsSecret>>

(***************************************************************************)
(* Rows and statuses.                                                      *)
(***************************************************************************)
OrderStatus == {"pending_payment", "payment_confirmed", "running", "paused",
                "completed", "cancelled", "failed", "expired"}
TaskStatus == {"pending", "running", "paused", "completed", "failed"}
TerminalStatus == {"completed", "cancelled", "failed"}

\* payment_signature: null, or the receipt "fees:<sig>,ops:<sig>".  A
\* signature is the number of the transfer in the payment address's history.
NullSignature == <<>>
SweepReceipt(feesSig, opsSig) ==
    <<[leg |-> "fees", sig |-> feesSig], [leg |-> "ops", sig |-> opsSig]>>

\* WALLET_MASTER_SEED as deployed: configured.
WalletMasterSeed == "seed"

\* hkdf("sha256", ikm, salt, info, 32): the output is told apart by every
\* input; collisions of SHA-256 are left out.
Hkdf(ikm, salt, info) == <<"hkdf", ikm, salt, info>>

\* Keypair.fromSeed(seed)
KeypairFromSeed(seed) ==
    [publicKey |-> <<"public", seed>>, secretKey |-> <<"secret", seed>>]

\* A faulty derivation: the order id is left out of the HKDF.
DerivesFromSeedAlone(orderId) ==
    KeypairFromSeed(Hkdf(masterSeed, "", <<"pricegoupbot:payment", "">>))

\* derivePaymentKeypair(orderId): HKDF of the master seed with the order id
\* as salt and info "pricegoupbot:payment".
DerivePaymentKeypair(orderId) ==
    KeypairFromSeed(Hkdf(masterSeed, orderId, <<"pricegoupbot:payment", "">>))

\* derivePaymentAddress(orderId)
DerivePaymentAddress(orderId) == DerivePaymentKeypair(orderId).publicKey

\* The payment_address column is kept relative to the row's own id: "TEMP"
\* is the placeholder, "derived" the address derived from that id, "secret"
\* a secret key, "legacy" any other address.
AddressColumn(o, address) ==
    IF address = DerivePaymentAddress(o) THEN "derived"
    ELSE IF address[1] = "secret" THEN "secret"
    ELSE "legacy"

NoOrder ==
    [status |-> "absent", payment_signature |-> NullSignature,
     payment_address |-> "TEMP", total_cost |-> 0, tasks_count |-> 0,
     duration_hours |-> 0, started_at |-> NoTime, completed_at |-> NoTime,
     expires_at |-> NoTime]

\* No call of the order service has ended yet.
NoReturn == <<>>

\* updateVolumeOrder(id, updates): the row with the given columns replaced.
UpdateVolumeOrder(tbl, o, updates) ==
    [tbl EXCEPT ![o] =
        [c \in DOMAIN tbl[o] |->
            IF c \in DOMAIN updates THEN updates[c] ELSE tbl[o][c]]]

\* getOrdersByStatus(status), in id order.
GetOrdersByStatus(tbl, st) ==
    SelectSeq(OrderSeq, LAMBDA o : tbl[o].status = st)

\* Math.floor(order.total_cost * LAMPORTS_PER_SOL), total_cost in 1/100 SOL.
ExpectedLamports(total_cost) == total_cost * (LAMPORTS_PER_SOL \div 100)

\* balance < expectedLamports * 0.99
\* A faulty tolerance check: no payment is insufficient.
NeverBelow(balance, expected) == FALSE

BelowTolerance(balance, expected) ==
    LET whole == MulDiv(expected, 99, 100)
    IN  balance < whole \/ (balance = whole /\ MulDivFrac(expected, 99, 100))

\* feeBps || 500
ServiceFeeBps == IF feeBps = 0 THEN FEE_BPS ELSE feeBps

\* Math.floor(balance * serviceFeeRate), serviceFeeRate = (feeBps || 500) /
\* 10000, in exact arithmetic.
ServiceFeeAmount(balance) == MulDiv(balance, ServiceFeeBps, 10000)

\* A faulty split: nothing is kept for the fees of the two transfers.
ForgetsReserve(balance) == balance - ServiceFeeAmount(balance)

\* balance - serviceFeeAmount - 10000
OpsAmount(balance) == balance - ServiceFeeAmount(balance) - NetworkFeeReserve

NoHist == [feeSent |-> 0, opsSent |-> 0]

\* The result of a sweep pass, with the transfers it submitted per order.
NoSweepResult ==
    [processed |-> 0, swept |-> {}, errors |-> {},
     transfers |-> [o \in Orders |-> 0]]

\* The result of a scheduling pass, with the orders it created tasks for.
NoProcessorResult ==
    [started |-> {}, startErrors |-> {}, created |-> {}, processedTasks |-> 0,
     completedOrders |-> {}, errors |-> {}, status |-> 200]
NoFundCall ==
    [task |-> 0, order |-> "none", required |-> 0, wallet |-> 0, budget |-> 0,
     attempted |-> 0, sent |-> 0, result |-> "none"]

(***************************************************************************)
(* SweeperService.                                                         *)
(***************************************************************************)
\* What the network does to one sweepOrderPayment call: nothing, the key
\* derivation throws, the balance read throws, the fee transfer is rejected,
\* the operations transfer is rejected.
SweepFaults == {"none", "derive", "balance", "fees", "ops"}

\* A faulty receipt guard: no order is ever recognised as swept.
NeverSwept(order) == FALSE

\* order.payment_signature && order.payment_signature.includes('fees:')
AlreadySwept(order) ==
    \E i \in DOMAIN order.payment_signature :
        order.payment_signature[i].leg = "fees"

\* A faulty address check: the stored address is taken as the derived one.
TrustsStoredAddress(order) == FALSE

\* The stored payment address is not 'TEMP' and differs from the address
\* derived from the order id.
AddressMismatch(order) == order.payment_address = "legacy"

\* The order is of a status the sweep refuses.
SweepRefusesStatus(order) == order.status \in TerminalStatus

\* A system transfer of `lamports` whose fee payer is the sender lands when
\* the sender holds the amount and the fee.
CanSend(balance, lamports) == lamports >= 0 /\ balance >= lamports + TxFee

\* A faulty destination: the operations share goes to the order's budget.
OpsToBudget == "budget"

\* Where sweepOrderPayment sends the operations share: "ops" is
\* TREASURY_OPERATIONS_ADDRESS, "budget" the order's ops-budget address.
SweepOpsDestination == "ops"

\* The status sweepOrderPayment writes with the receipt.
SweepStatusUpdate(order) == "payment_confirmed"

\* The world one sweep pass works on.
SweepWorld ==
    [orders |-> orders, payBal |-> payBal, budgetBal |-> budgetBal,
     feesBal |-> feesBal, opsBal |-> opsBal, hist |-> hist,
     res |-> NoSweepResult]

SweepReturn(w, o, r) ==
    [w EXCEPT
        !.res.processed = @ + 1,
        !.res.swept = IF r = "true" THEN @ \cup {o} ELSE @,
        !.res.errors = IF r = "throw" THEN @ \cup {o} ELSE @]

\* sendToTreasury(paymentKeypair, treasuryFeesAddress, serviceFeeAmount)
SendFees(w, o, amount, ok) ==
    [w EXCEPT
        !.res.transfers[o] = @ + 1,
        !.hist[o].feeSent = IF ok THEN @ + 1 ELSE @,
        !.payBal[o] = IF ok THEN @ - amount - TxFee ELSE @,
        !.feesBal = IF ok THEN @ + amount ELSE @]

\* sendToTreasury(paymentKeypair, <operations destination>, opsAmount)
SendOps(w, o, amount, ok) ==
    [w EXCEPT
        !.res.transfers[o] = @ + 1,
        !.hist[o].opsSent = IF ok THEN @ + 1 ELSE @,
        !.payBal[o] = IF ok THEN @ - amount - TxFee ELSE @,
        !.opsBal = IF ok /\ SweepOpsDestination = "ops" THEN @ + amount ELSE @,
        !.budgetBal[o] =
            IF ok /\ SweepOpsDestination = "budget" THEN @ + amount ELSE @]

\* The receipt update of sweepOrderPayment.
RecordSweep(w, o) ==
    [w EXCEPT !.orders = UpdateVolumeOrder(@, o,
        [status |-> SweepStatusUpdate(w.orders[o]),
         payment_signature |->
            SweepReceipt(w.hist[o].feeSent, w.hist[o].opsSent)])]

\* sweepOrderPayment(o) under network behaviour f, as the pass calls it.
SweepOrderPayment(w, o, f) ==
    LET order == w.orders[o]
        balance == w.payBal[o]
        fee == ServiceFeeAmount(balance)
        ops == OpsAmount(balance)
        feeOk == f # "fees" /\ CanSend(balance, fee)
        afterFee == SendFees(w, o, fee, feeOk)
        opsOk == f # "ops" /\ CanSend(afterFee.payBal[o], ops)
        afterOps == SendOps(afterFee, o, ops, opsOk)
    IN  IF order.status = "absent" THEN SweepReturn(w, o, "false")
        ELSE IF AlreadySwept(order) THEN SweepReturn(w, o, "false")
        ELSE IF SweepRefusesStatus(order) THEN SweepReturn(w, o, "false")
        ELSE IF AddressMismatch(order) THEN SweepReturn(w, o, "false")
        ELSE IF f = "derive" THEN
            SweepReturn(w, o,
                IF order.payment_address = "TEMP" THEN "throw" ELSE "false")
        ELSE IF f = "balance" THEN SweepReturn(w, o, "throw")
        ELSE IF balance < MIN_SWEEP_LAMPORTS THEN SweepReturn(w, o, "false")
        ELSE IF BelowTolerance(balance, ExpectedLamports(order.total_cost))
            THEN SweepReturn(w, o, "false")
        ELSE IF ~feeOk THEN SweepReturn(afterFee, o, "throw")
        ELSE IF ~opsOk THEN SweepReturn(afterOps, o, "throw")
        ELSE SweepReturn(RecordSweep(afterOps, o), o, "true")

\* A faulty loop: the first order whose sweep throws ends the pass.
RECURSIVE AbortingSweep(_, _, _)
AbortingSweep(w, todo, fs) ==
    IF todo = <<>> THEN w
    ELSE LET r == SweepOrderPayment(w, Head(todo), fs[Head(todo)])
         IN  IF Head(todo) \in r.res.errors THEN r
             ELSE AbortingSweep(r, Tail(todo), fs)

\* The loop of sweepAllPendingPayments over the orders it selected.
RECURSIVE SweepLoop(_, _, _)
SweepLoop(w, todo, fs) ==
    IF todo = <<>> THEN w
    ELSE SweepLoop(SweepOrderPayment(w, Head(todo), fs[Head(todo)]),
                   Tail(todo), fs)

\* The orders a pass selects: pending, then confirmed, then running.
OrdersToCheck(tbl) ==
    GetOrdersByStatus(tbl, "pending_payment")
        \o GetOrdersByStatus(tbl, "payment_confirmed")
        \o GetOrdersByStatus(tbl, "running")

(***************************************************************************)
(* VolumeEngineService: tasks, ticks, funding.                             *)
(***************************************************************************)
\* updateVolumeTask(id, updates)
UpdateVolumeTask(tbl, t, updates) ==
    [tbl EXCEPT ![t] =
        [c \in DOMAIN tbl[t] |->
            IF c \in DOMAIN updates THEN updates[c] ELSE tbl[t][c]]]

\* getOrderTasks(orderId): the ids of the order's task rows.
GetOrderTasks(tbl, o) == {t \in DOMAIN tbl : tbl[t].order_id = o}

\* Ids in ascending order, as a sequence.
RECURSIVE AsSeq(_)
AsSeq(S) ==
    IF S = {} THEN <<>>
    ELSE LET m == CHOOSE x \in S : \A y \in S : x <= y
         IN  <<m>> \o AsSeq(S \ {m})

\* Math.max(1, Math.floor(duration_hours * 60 / (tasks_count * 5)))
IntervalMinutes(order) ==
    Max(1, (order.duration_hours * 60) \div (order.tasks_count * TotalCycles))

\* The rows createVolumeTasks builds for an order.
\* A faulty task row: the generated keypair's secret key is kept.
GeneratedSecret(o, i) == KeypairFromSeed(<<"random", o, i>>).secretKey

\* Keypair.generate().publicKey: the public key of a keypair from fresh
\* randomness, whose secret key is kept nowhere; i tells the keypairs of
\* one call apart.
GeneratedAddress(o, i) == KeypairFromSeed(<<"random", o, i>>).publicKey

\* deriveTradingKeypair(taskId): HKDF of the master seed with an empty salt
\* and info "task-<taskId>".
DeriveTradingKeypair(t) == KeypairFromSeed(Hkdf(masterSeed, "", <<"task-", t>>))
TradingAddress(t) == DeriveTradingKeypair(t).publicKey

NewTaskRows(o, order) ==
    [i \in 1..order.tasks_count |->
        [order_id |-> o, status |-> "pending", cycles_completed |-> 0,
         wallet_address |-> GeneratedAddress(o, i),
         target_volume |-> VolumePerTask, current_volume |-> 0,
         total_cycles |-> TotalCycles,
         interval_minutes |-> IntervalMinutes(order),
         last_transaction_at |-> NoTime]]

\* The world a scheduling pass works on.
EngineWorld ==
    [orders |-> orders, tasks |-> tasks, txs |-> txs, budgetBal |-> budgetBal,
     opsBal |-> opsBal, walletBal |-> walletBal, tokenBal |-> tokenBal,
     fund |-> NoFundCall, threw |-> FALSE, storeDown |-> FALSE,
     res |-> NoProcessorResult]

\* createVolumeTasks(order): the rows are inserted, each with a fresh wallet.
CreateVolumeTasks(w, o) ==
    LET rows == NewTaskRows(o, w.orders[o])
        zeros == [i \in 1..Len(rows) |-> 0]
        none == [i \in 1..Len(rows) |-> <<>>]
    IN  [w EXCEPT !.tasks = @ \o rows, !.txs = @ \o none,
                  !.walletBal = @ \o zeros, !.tokenBal = @ \o zeros,
                  !.res.created = @ \cup {o}]

\* A faulty start: tasks are created on every start.
StartAlwaysCreates(w, o) == TRUE

\* startVolumeGeneration creates tasks only when the order has none.
StartCreatesTasks(w, o) == GetOrderTasks(w.tasks, o) = {}

\* startVolumeGeneration(o); dbFails: the task insert is rejected.  With the
\* store down the update of the catch block is rejected too and its error
\* is the one thrown.
StartVolumeGeneration(w, o, dbFails) ==
    LET order == w.orders[o]
        failed(v) ==
            IF v.storeDown THEN [v EXCEPT !.threw = TRUE]
            ELSE [v EXCEPT !.threw = TRUE,
                           !.orders = UpdateVolumeOrder(@, o,
                               [status |-> "failed", completed_at |-> now])]
        running == [w EXCEPT !.threw = FALSE,
                             !.orders = UpdateVolumeOrder(@, o,
                                 [status |-> "running", started_at |-> now])]
    IN  IF order.status = "absent" THEN [w EXCEPT !.threw = TRUE]
        ELSE IF order.status # "payment_confirmed" THEN failed(w)
        ELSE IF ~StartCreatesTasks(running, o) THEN running
        ELSE IF dbFails THEN failed(running)
        ELSE CreateVolumeTasks(running, o)

\* stopVolumeGeneration(o)
StopVolumeGeneration(w, o) ==
    [w EXCEPT
        !.orders = UpdateVolumeOrder(@, o,
            [status |-> "completed", completed_at |-> now]),
        !.tasks = [t \in DOMAIN @ |->
            IF @[t].order_id = o /\ @[t].status = "running"
            THEN [@[t] EXCEPT !.status = "completed"] ELSE @[t]]]

\* A faulty due check: a failed task waits for its interval.
NoRetryCooldown(task) ==
    IF task.status = "pending" THEN TRUE
    ELSE IF task.status = "completed" THEN FALSE
    ELSE \/ task.last_transaction_at = NoTime
         \/ now - task.last_transaction_at >= task.interval_minutes

\* shouldExecuteTask(task)
ShouldExecuteTask(task) ==
    IF task.status = "pending" THEN TRUE
    ELSE IF task.status = "completed" THEN FALSE
    ELSE IF task.status = "failed" THEN
        \/ task.last_transaction_at = NoTime
        \/ now - task.last_transaction_at >= RetryCooldownMinutes
    ELSE \/ task.last_transaction_at = NoTime
         \/ now - task.last_transaction_at >= task.interval_minutes

\* A faulty due check: the time since the last transaction alone decides.
DueByTimeAlone(task) ==
    \/ task.last_transaction_at = NoTime
    \/ now - task.last_transaction_at >= task.interval_minutes

\* A faulty loop: failed tasks are skipped like completed ones.
SkipsFailed(task) ==
    task.status \notin {"completed", "failed"} /\ ShouldExecuteTask(task)

\* The loop of processOrderTasks ticks a task that is not completed and due.
TickIsDue(task) == task.status # "completed" /\ ShouldExecuteTask(task)

\* What the network does to one tick: the size Math.random picks for a buy,
\* whether the swap lands, whether the funding transfer lands.
TradeSizes == {MinTradeLamports}
TickEnvs == [trade : TradeSizes, swap : {"ok", "fail"}, fund : {"ok", "lost"}]

\* The network and the store at their best.
QuietEnv ==
    [trade |-> MinTradeLamports, swap |-> "ok", fund |-> "ok"]

\* Math.max(0, budgetBalance - 5000000)
MaxFund(budgetBalance) == Max(0, budgetBalance - BudgetReserve)

\* A faulty amount: the whole shortfall, whatever the budget holds.
WholeShortfall(required, currentBalance, budgetBalance) ==
    required - currentBalance

\* Math.min(requiredLamports - currentBalance, maxFund)
ToFund(required, currentBalance, budgetBalance) ==
    Min(required - currentBalance, MaxFund(budgetBalance))

\* ensureTradingWalletFunded(wallet of t, required, o)
EnsureTradingWalletFunded(w, t, required, o, env) ==
    LET cur == w.walletBal[t]
        budget == w.budgetBal[o]
        toFund == ToFund(required, cur, budget)
        lands == env.fund = "ok" /\ CanSend(budget, toFund)
        call == [task |-> t, order |-> o, required |-> required,
                 wallet |-> cur, budget |-> budget]
    IN  IF cur >= required THEN
            [w EXCEPT !.threw = FALSE,
                      !.fund = call @@ [attempted |-> 0, sent |-> 0,
                                           result |-> "enough"]]
        ELSE IF toFund <= 0 THEN
            [w EXCEPT !.threw = TRUE,
                      !.fund = call @@ [attempted |-> 0, sent |-> 0,
                                           result |-> "throw"]]
        ELSE
            [w EXCEPT !.threw = FALSE,
                      !.budgetBal[o] = IF lands THEN @ - toFund - TxFee ELSE @,
                      !.walletBal[t] = IF lands THEN @ + toFund ELSE @,
                      !.fund = call @@
                          [attempted |-> toFund,
                           sent |-> IF lands THEN toFund ELSE 0,
                           result |-> "funded"]]

\* sweepTradingWallet(wallet of t): what exceeds the minimum goes to the
\* operations treasury.
SweepTradingWallet(w, t) ==
    LET balance == w.walletBal[t]
        sweepAmount == balance - TradingMinBalance
    IN  IF balance > TradingMinBalance /\ CanSend(balance, sweepAmount)
        THEN [w EXCEPT !.walletBal[t] = @ - sweepAmount - TxFee,
                       !.opsBal = @ + sweepAmount]
        ELSE w

\* executeBuySellCycle chooses to sell.
ShouldSell(w, t) ==
    /\ w.tokenBal[t] > 0
    /\ w.txs[t] # <<>>
    /\ Head(w.txs[t]) = "buy"

\* executeBuySellCycle(task t, order o); threw says whether it threw.
ExecuteBuySellCycle(w, t, o, env) ==
    IF ShouldSell(w, t) THEN
        LET f == EnsureTradingWalletFunded(w, t, SellFeeLamports, o, env)
            ok == env.swap = "ok" /\ f.walletBal[t] >= TxFee
            sold == [f EXCEPT !.txs[t] = <<"sell">> \o @,
                              !.walletBal[t] = @ + f.tokenBal[t] - TxFee,
                              !.tokenBal[t] = 0]
        IN  IF f.threw THEN f
            ELSE IF ~ok THEN
                [f EXCEPT !.txs[t] = <<"sell">> \o @, !.threw = TRUE]
            ELSE SweepTradingWallet(sold, t)
    ELSE
        LET f == EnsureTradingWalletFunded(w, t, env.trade * 2, o, env)
            ok == env.swap = "ok" /\ f.walletBal[t] >= env.trade + TxFee
        IN  IF f.threw THEN f
            ELSE IF ~ok THEN
                [f EXCEPT !.txs[t] = <<"buy">> \o @, !.threw = TRUE]
            ELSE [f EXCEPT !.txs[t] = <<"buy">> \o @,
                           !.walletBal[t] = @ - env.trade - TxFee,
                           !.tokenBal[t] = @ + env.trade]

\* A faulty status: the task is completed one cycle early.
CompletedOneEarly(task, newCyclesCompleted) ==
    IF newCyclesCompleted + 1 >= task.total_cycles
    THEN "completed" ELSE "running"

\* The status a tick that made newCyclesCompleted cycles leaves.
StatusAfterCycle(task, newCyclesCompleted) ==
    IF newCyclesCompleted >= task.total_cycles THEN "completed" ELSE "running"

\* task.target_volume * (newCyclesCompleted / task.total_cycles)
NewVolume(task, newCyclesCompleted) ==
    (task.target_volume * newCyclesCompleted) \div task.total_cycles

\* A faulty catch block: the failed tick is counted as a cycle.
FailedTickCounts(task) ==
    [status |-> "failed", last_transaction_at |-> now,
     cycles_completed |-> task.cycles_completed + 1]

\* The update the catch block of the loop writes.
FailedTaskUpdate(task) ==
    [status |-> "failed", last_transaction_at |-> now]

\* One iteration of the loop of processOrderTasks, on the row `task` that
\* the loop read before it started.
TickTask(w, t, task, o, env) ==
    IF ~TickIsDue(task) THEN w
    ELSE
        LET marked == IF task.status = "pending"
                      THEN [w EXCEPT !.tasks = UpdateVolumeTask(@, t,
                                [status |-> "running"])]
                      ELSE w
            done == ExecuteBuySellCycle(marked, t, o, env)
            newCyclesCompleted == task.cycles_completed + 1
        IN  IF done.threw THEN
                [done EXCEPT !.threw = FALSE,
                             !.tasks = UpdateVolumeTask(@, t,
                                 FailedTaskUpdate(task))]
            ELSE
                [done EXCEPT
                    !.res.processedTasks = @ + 1,
                    !.tasks = UpdateVolumeTask(@, t,
                        [cycles_completed |-> newCyclesCompleted,
                         current_volume |-> NewVolume(task, newCyclesCompleted),
                         last_transaction_at |-> now,
                         status |->
                            StatusAfterCycle(task, newCyclesCompleted)])]

\* The points of one iteration at which the invocation can be killed with
\* the store changed and the progress update not written: after the update
\* that marks a pending task running, and after executeBuySellCycle returned
\* or threw.
AbortPoints == {"marked", "traded"}

\* One iteration of the loop of processOrderTasks that is killed at `at`:
\* neither the progress update nor the update of the catch block is written.
TickAborted(w, t, task, o, env, at) ==
    IF ~TickIsDue(task) THEN w
    ELSE
        LET marked == IF task.status = "pending"
                      THEN [w EXCEPT !.tasks = UpdateVolumeTask(@, t,
                                [status |-> "running"])]
                      ELSE w
            done == ExecuteBuySellCycle(marked, t, o, env)
        IN  IF at = "marked" THEN marked
            ELSE [done EXCEPT !.threw = FALSE]

RECURSIVE TickLoop(_, _, _, _, _)
TickLoop(w, todo, snapshot, o, env) ==
    IF todo = <<>> THEN w
    ELSE TickLoop(TickTask(w, Head(todo), snapshot[Head(todo)], o, env),
                  Tail(todo), snapshot, o, env)

\* processOrderTasks(o)
ProcessOrderTasks(w, o, env) ==
    LET order == w.orders[o]
        created == IF GetOrderTasks(w.tasks, o) = {}
                   THEN CreateVolumeTasks(w, o) ELSE w
        currentTasks == GetOrderTasks(created.tasks, o)
        ticked == TickLoop(created, AsSeq(currentTasks), created.tasks, o, env)
        completedTasks == {t \in currentTasks :
                              ticked.tasks[t].status = "completed"}
    IN  IF order.status # "running" THEN w
        ELSE IF completedTasks = currentTasks THEN
            [StopVolumeGeneration(ticked, o) EXCEPT
                !.res.completedOrders = @ \cup {o}]
        ELSE ticked

RECURSIVE StartLoop(_, _, _)
StartLoop(w, todo, dbFails) ==
    IF todo = <<>> THEN w
    ELSE LET o == Head(todo)
             s == StartVolumeGeneration(w, o, o \in dbFails)
             r == [s EXCEPT
                     !.threw = FALSE,
                     !.res.started = IF s.threw THEN @ ELSE @ \cup {o},
                     !.res.startErrors = IF s.threw THEN @ \cup {o} ELSE @]
         IN  StartLoop(r, Tail(todo), dbFails)

\* The loop of processAllPendingTasks over the running orders; an order
\* whose processOrderTasks throws adds an error and the loop goes on.
RECURSIVE ProcessLoop(_, _, _, _)
ProcessLoop(w, todo, dbFails, envs) ==
    IF todo = <<>> THEN w
    ELSE LET o == Head(todo)
             r == IF o \in dbFails
                  THEN [w EXCEPT !.res.errors = @ \cup {o}]
                  ELSE ProcessOrderTasks(w, o, envs[o])
         IN  ProcessLoop(r, Tail(todo), dbFails, envs)

\* getPendingOrders(): the orders ready to start.
GetPendingOrders(tbl) == GetOrdersByStatus(tbl, "payment_confirmed")

\* api/volume-processor: start the confirmed orders, then tick the running.
\* The store rejects one call of the pass for each order of dbFails: the task
\* insert of an order the pass starts, the first read of any other order.
VolumeProcessor(w, dbFails, envs) ==
    LET pending == GetPendingOrders(w.orders)
        started == StartLoop(w, pending, dbFails)
        readFails == {o \in dbFails : \A i \in 1..Len(pending) : pending[i] # o}
    IN  ProcessLoop(started, GetOrdersByStatus(started.orders, "running"),
                    readFails, envs)

\* The orders a sweep pass selects; the network can fail only on these.
SweepCandidates ==
    {o \in Orders :
        orders[o].status \in {"pending_payment", "payment_confirmed",
                              "running"}}

\* A choice of network behaviour for the orders that have a row.
Behaviour(g, none) ==
    [o \in Orders |-> IF o \in DOMAIN g THEN g[o] ELSE none]

\* api/sweeper: one pass of sweepAllPendingPayments.
SweepPass ==
    \E g \in [SweepCandidates -> SweepFaults] :
        LET fs == Behaviour(g, "none")
            w == SweepLoop(SweepWorld, OrdersToCheck(orders), fs)
            n == Cardinality({o \in Orders : fs[o] # "none"})
        IN  /\ faults + n <= MaxFaults
            /\ faults' = faults + n
            /\ orders' = w.orders
            /\ payBal' = w.payBal
            /\ budgetBal' = w.budgetBal
            /\ feesBal' = w.feesBal
            /\ opsBal' = w.opsBal
            /\ hist' = w.hist
            /\ sweepRes' = w.res
            /\ UNCHANGED <<taskVars, now, uiVars, procRes, fundLog, userBal,
                           deposits, feeBps, masterSeed, opsSecret, pc>>

\* The faults a choice of network behaviour holds.
EngineFaults(dbFails, envs) ==
    Cardinality(dbFails)
        + Cardinality({o \in Orders : envs[o].swap = "fail"})
        + Cardinality({o \in Orders : envs[o].fund = "lost"})

\* The orders a scheduling pass starts or ticks; the store and the network
\* can fail only on these.
TickCandidates ==
    {o \in Orders : orders[o].status \in {"payment_confirmed", "running"}}

\* api/volume-processor: one scheduling pass.
ProcessorPass ==
    \E dbFails \in SUBSET TickCandidates, g \in [TickCandidates -> TickEnvs] :
        LET envs == Behaviour(g, QuietEnv)
            w == VolumeProcessor(EngineWorld, dbFails, envs)
        IN  /\ faults + EngineFaults(dbFails, envs) <= MaxFaults
            /\ faults' = faults + EngineFaults(dbFails, envs)
            /\ orders' = w.orders
            /\ tasks' = w.tasks
            /\ txs' = w.txs
            /\ budgetBal' = w.budgetBal
            /\ opsBal' = w.opsBal
            /\ walletBal' = w.walletBal
            /\ tokenBal' = w.tokenBal
            /\ procRes' = w.res
            /\ UNCHANGED <<payBal, feesBal, now, uiVars, sweepRes, fundLog,
                           userBal, deposits, feeBps, masterSeed, opsSecret, hist, pc>>

\* api/volume-processor while the store goes down: the first order to start
\* is set running, then every call of the store is rejected: its task
\* insert, the update of the catch block, the other starts and the read of
\* the running orders, and the handler answers 500.
ProcessorPassOutage ==
    LET pending == GetPendingOrders(orders)
        down == [EngineWorld EXCEPT !.storeDown = TRUE]
        w == StartVolumeGeneration(down, Head(pending), TRUE)
    IN  /\ pending # <<>>
        /\ faults + 2 <= MaxFaults
        /\ faults' = faults + 2
        /\ orders' = w.orders
        /\ procRes' = [NoProcessorResult EXCEPT
                          !.startErrors = {pending[i] : i \in DOMAIN pending},
                          !.status = 500]
        /\ UNCHANGED <<taskVars, treasuryVars, payBal, now, uiVars, sweepRes,
                       fundLog, userBal, deposits, feeBps, masterSeed,
                       opsSecret, hist, pc>>

\* api/volume-processor killed by the platform's timeout: no order is waiting
\* to start, and the invocation dies in the tick of the first due task of
\* the first running order.  The trigger gets no answer from the handler.
ProcessorPassAborted ==
    \E at \in AbortPoints, env \in TickEnvs :
        LET running == GetOrdersByStatus(orders, "running")
            o == Head(running)
            due == SelectSeq(AsSeq(GetOrderTasks(tasks, o)),
                             LAMBDA t : TickIsDue(tasks[t]))
            t == Head(due)
            envs == [x \in Orders |-> IF x = o THEN env ELSE QuietEnv]
            w == TickAborted(EngineWorld, t, tasks[t], o, env, at)
        IN  /\ GetPendingOrders(orders) = <<>>
            /\ running # <<>>
            /\ due # <<>>
            /\ faults + 1 + EngineFaults({}, envs) <= MaxFaults
            /\ faults' = faults + 1 + EngineFaults({}, envs)
            /\ tasks' = w.tasks
            /\ txs' = w.txs
            /\ budgetBal' = w.budgetBal
            /\ opsBal' = w.opsBal
            /\ walletBal' = w.walletBal
            /\ tokenBal' = w.tokenBal
            /\ UNCHANGED <<orders, payBal, feesBal, now, uiVars, resVars,
                           userBal, deposits, feeBps, masterSeed, opsSecret,
                           hist, pc>>

(***************************************************************************)
(* PaymentService, VolumeOrderService and the bot's handlers.              *)
(***************************************************************************)
VolumePackages == {75000}
Durations == {72}

\* A faulty table: the seven-day factor is above the three-day one.
LongOrdersNeedMore(hours) ==
    IF hours <= 6 THEN 20
    ELSE IF hours <= 12 THEN 15
    ELSE IF hours <= 24 THEN 12
    ELSE IF hours <= 72 THEN 10
    ELSE 13

\* getDurationFactor(hours), in tenths.
DurationFactor(hours) ==
    IF hours <= 6 THEN 20
    ELSE IF hours <= 12 THEN 15
    ELSE IF hours <= 24 THEN 12
    ELSE IF hours <= 72 THEN 10
    ELSE 8

\* A faulty count: Math.floor in place of Math.ceil and no minimum.
FloorsTasks(volume, duration) ==
    (((12 * volume) \div 1000000) * DurationFactor(duration)) \div 10

\* calculateTasksCount(volume, duration)
CalculateTasksCount(volume, duration) ==
    LET baseTasks == (12 * volume + 999999) \div 1000000
        totalTasks == (baseTasks * DurationFactor(duration) + 9) \div 10
    IN  Max(1, totalTasks)

\* Math.round(totalCost * 100) / 100 of a cost in 1/10000 SOL, in 1/100 SOL.
RoundToCents(cost) == (cost + 50) \div 100

\* calculateOrderCost(volume, duration), the cost in 1/100 SOL.
CalculateOrderCost(volume, duration) ==
    [tasks_count |-> CalculateTasksCount(volume, duration),
     total_cost |-> RoundToCents(
        CalculateTasksCount(volume, duration) * BaseCostPerTask * 100),
     duration_hours |-> duration]

\* updateOrderStatus(o, status)
UpdateOrderStatus(tbl, o, st) ==
    IF tbl[o].status = "absent" THEN tbl
    ELSE IF st = "running"
        THEN UpdateVolumeOrder(tbl, o, [status |-> st, started_at |-> now])
    ELSE IF st \in TerminalStatus
        THEN UpdateVolumeOrder(tbl, o, [status |-> st, completed_at |-> now])
    ELSE UpdateVolumeOrder(tbl, o, [status |-> st])

\* verifyPayment(address, expectedAmount): the balance path.
VerifyPayment(balance, total_cost) ==
    balance + 1 >=
        ExpectedLamports(total_cost) - ExpectedLamports(PaymentToleranceCentiSol)

\* getUserSession: the session in memory, else the pending order restored.
GetUserSession ==
    LET pending == GetOrdersByStatus(orders, "pending_payment")
    IN  IF session # "none" THEN session
        ELSE IF pending # <<>> THEN Head(pending)
        ELSE "none"

\* getOrCreateDraftOrder / createDraftOrder: a session without an order gets
\* a draft with placeholder values and a derived payment address.
CreateDraftOrder(o) ==
    /\ GetUserSession = "none"
    /\ orders[o].status = "absent"
    /\ buttons[o] = {}
    /\ orders' = [orders EXCEPT ![o] =
            [NoOrder EXCEPT !.status = "pending_payment",
                            !.payment_address =
                                AddressColumn(o, DerivePaymentAddress(o))]]
    /\ session' = o
    /\ UNCHANGED <<taskVars, treasuryVars, payBal, now, buttons, returned,
                   resVars,
                   envVars, hist, pc>>

\* createDraftOrderIfReady: volume and duration selected, the order in the
\* session is updated with the computed cost.
SelectOptions(volume, duration) ==
    /\ GetUserSession # "none"
    /\ session' = GetUserSession
    /\ orders' = UpdateVolumeOrder(orders, GetUserSession,
                    CalculateOrderCost(volume, duration))
    /\ UNCHANGED <<taskVars, treasuryVars, payBal, now, buttons, returned,
                   resVars,
                   envVars, hist, pc>>

\* handlePaymentCheck: the payment is found, the order is confirmed and the
\* session cleared.
HandlePaymentCheck ==
    LET o == GetUserSession
    IN  /\ o # "none"
        /\ orders[o].total_cost # 0
        /\ VerifyPayment(payBal[o], orders[o].total_cost)
        /\ orders' = UpdateOrderStatus(orders, o, "payment_confirmed")
        /\ session' = "none"
        /\ UNCHANGED <<taskVars, treasuryVars, payBal, now, buttons, returned,
                   resVars,
                       envVars, hist, pc>>

\* The customer sends lamports to the payment address of an order.
DepositAmounts == {ExpectedLamports(BaseCostPerTask), LAMPORTS_PER_SOL \div 10}
Deposit(o, amount) ==
    /\ orders[o].status # "absent"
    /\ userBal >= amount
    /\ deposits < MaxDeposits
    /\ deposits' = deposits + 1
    /\ userBal' = userBal - amount
    /\ payBal' = [payBal EXCEPT ![o] = @ + amount]
    /\ UNCHANGED <<orders, taskVars, treasuryVars, now, uiVars, resVars,
                   faults, feeBps, masterSeed, opsSecret, hist, pc>>

\* The buttons showOrdersList and handleViewOrder put under an order.
ButtonsFor(st) ==
    IF st = "running" THEN {"pause", "stop"}
    ELSE IF st = "paused" THEN {"resume", "stop"}
    ELSE IF st = "pending_payment" THEN {"delete"}
    ELSE {}

\* /orders: the list is sent; earlier messages keep their buttons.
ShowOrdersList ==
    /\ \E o \in Orders : orders[o].status # "absent"
    /\ buttons' = [o \in Orders |-> buttons[o] \cup ButtonsFor(orders[o].status)]
    /\ UNCHANGED <<orders, taskVars, treasuryVars, payBal, now, session,
                   returned,
                   resVars, envVars, hist, pc>>

\* The status a button's handler writes.
HandlerStatus(b) ==
    IF b = "pause" THEN "paused"
    ELSE IF b = "resume" THEN "running"
    ELSE "completed"

\* handlePauseOrder, handleResumeOrder, handleStopOrder
HandleOrderButton(o, b) ==
    /\ b \in buttons[o] \cap {"pause", "resume", "stop"}
    /\ orders' = UpdateOrderStatus(orders, o, HandlerStatus(b))
    /\ UNCHANGED <<taskVars, treasuryVars, payBal, now, uiVars, resVars,
                   envVars, hist, pc>>
HandlePauseOrder(o) == HandleOrderButton(o, "pause")
HandleResumeOrder(o) == HandleOrderButton(o, "resume")
HandleStopOrder(o) == HandleOrderButton(o, "stop")

\* deleteVolumeOrder(orderId): the row goes, whatever its status.
DeleteVolumeOrder(tbl, o) == [tbl EXCEPT ![o] = NoOrder]

\* ON DELETE CASCADE: the order's task rows go with it.  Ids are not used
\* again, so a deleted row keeps its place in the sequence.
CascadeDelete(rows, o) ==
    [t \in DOMAIN rows |->
        IF rows[t].order_id = o
            THEN [rows[t] EXCEPT !.order_id = "none", !.status = "deleted"]
            ELSE rows[t]]

\* handleDeleteOrder: an order awaiting payment gets the confirmation
\* buttons; any other is refused.
HandleDeleteOrder(o) ==
    /\ "delete" \in buttons[o]
    /\ buttons' = IF orders[o].status = "pending_payment"
                      THEN [buttons EXCEPT ![o] = @ \cup {"confirm_delete"}]
                      ELSE buttons
    /\ UNCHANGED <<orders, taskVars, treasuryVars, payBal, now, session,
                   returned, resVars, envVars, hist, pc>>

\* handleConfirmDelete: deleteOrder(orderId), the status is not read.
HandleConfirmDelete(o) ==
    /\ "confirm_delete" \in buttons[o]
    /\ orders' = DeleteVolumeOrder(orders, o)
    /\ tasks' = IF orders'[o].status = "absent" THEN CascadeDelete(tasks, o)
                 ELSE tasks
    /\ UNCHANGED <<txs, walletBal, tokenBal, treasuryVars, payBal, now,
                   uiVars, resVars, envVars, hist, pc>>

(***************************************************************************)
(* The admin routes.                                                       *)
(***************************************************************************)
\* POST orders/[id]/resume: the order is set running whatever its status,
\* started_at is written (the route selects only id and status), and the
\* failed, paused and cancelled tasks go back to pending.
AdminResume(o) ==
    /\ orders[o].status # "absent"
    /\ orders' = UpdateVolumeOrder(orders, o,
                    [status |-> "running", started_at |-> now])
    /\ tasks' = [t \in DOMAIN tasks |->
            IF tasks[t].order_id = o /\ tasks[t].status \in {"failed", "paused"}
            THEN [tasks[t] EXCEPT !.status = "pending"] ELSE tasks[t]]
    /\ UNCHANGED <<txs, walletBal, tokenBal, treasuryVars, payBal, now,
                   uiVars, resVars, envVars, hist, pc>>

\* POST orders/[id]/fund: lamports go from the operations treasury to the
\* order's ops-budget address.
FundAmounts == {LAMPORTS_PER_SOL \div 2}

\* deriveTreasuryOpsKeypair: HKDF of the master seed with an empty salt and
\* info "treasury-operations".
DeriveTreasuryOpsKeypair ==
    KeypairFromSeed(Hkdf(masterSeed, "", <<"treasury-operations", "">>))

\* Keypair.fromSecretKey(bytes)
KeypairFromSecretKey(secret) ==
    [publicKey |-> <<"public", <<"imported", secret>>>>,
     secretKey |-> <<"secret", <<"imported", secret>>>>]

\* The keypair the funding route signs with: the one of
\* TREASURY_OPERATIONS_SECRET_KEY if it is set, else the derived one.
OpsSigner ==
    IF opsSecret # "" THEN KeypairFromSecretKey(opsSecret)
    ELSE DeriveTreasuryOpsKeypair

AdminFund(o, lamports) ==
    /\ masterSeed # ""
    /\ orders[o].status # "absent"
    /\ opsBal >= lamports
    /\ CanSend(opsBal, lamports)
    /\ opsBal' = opsBal - lamports - TxFee
    /\ budgetBal' = [budgetBal EXCEPT ![o] = @ + lamports]
    /\ UNCHANGED <<orders, taskVars, feesBal, payBal, now, uiVars, resVars,
                   envVars, hist, pc>>

\* POST orders/[id]/run-now: the running and pending tasks are made due.
AdminRunNow(o) ==
    /\ \E t \in DOMAIN tasks :
          tasks[t].order_id = o /\ tasks[t].status \in {"running", "pending"}
    /\ tasks' = [t \in DOMAIN tasks |->
            IF tasks[t].order_id = o
               /\ tasks[t].status \in {"running", "pending"}
            THEN [tasks[t] EXCEPT !.last_transaction_at = now - WeekMinutes]
            ELSE tasks[t]]
    /\ UNCHANGED <<orders, txs, walletBal, tokenBal, treasuryVars, payBal,
                   now, uiVars, resVars, envVars, hist, pc>>

(***************************************************************************)
(* Overlapping sweep passes.  The sweeper endpoint takes no lock, so a     *)
(* second invocation can start while the first is between two awaits.      *)
(* pc holds one entry per invocation: where it stands, the orders it has   *)
(* still to visit, the row and the balance it read, the legs it has sent,  *)
(* and its result so far.                                                  *)
(***************************************************************************)
NewPass(todo) ==
    [at |-> IF todo = <<>> THEN "done" ELSE "guard", todo |-> todo,
     order |-> NoOrder, balance |-> 0, legs |-> {}, res |-> NoSweepResult]

\* The world as pass p sees it at its current await.
PassWorld(p) == [SweepWorld EXCEPT !.res = pc[p].res]

\* What a step of a pass leaves in the store and on chain.
PassWrites(w) ==
    /\ orders' = w.orders
    /\ payBal' = w.payBal
    /\ budgetBal' = w.budgetBal
    /\ feesBal' = w.feesBal
    /\ opsBal' = w.opsBal
    /\ hist' = w.hist
    /\ UNCHANGED <<taskVars, now, uiVars, procRes, fundLog, envVars>>

\* Pass p goes on with the same order.
PassGoes(p, w, at, row, balance, leg) ==
    /\ pc' = [pc EXCEPT ![p] =
            [@ EXCEPT !.at = at, !.order = row, !.balance = balance,
                      !.legs = @ \cup leg, !.res = w.res]]
    /\ sweepRes' = sweepRes
    /\ PassWrites(w)

\* sweepOrderPayment returns or throws in pass p; the loop moves on, and the
\* handler answers once no order is left.
PassReturns(p, w, r) ==
    LET done == SweepReturn(w, Head(pc[p].todo), r)
        rest == Tail(pc[p].todo)
    IN  /\ pc' = [pc EXCEPT ![p] =
                [@ EXCEPT !.at = IF rest = <<>> THEN "done" ELSE "guard",
                          !.todo = rest, !.order = NoOrder, !.balance = 0,
                          !.res = done.res]]
        /\ sweepRes' = IF rest = <<>> THEN done.res ELSE sweepRes
        /\ PassWrites(done)

\* An invocation of the endpoint reads the three candidate lists.
PassStart ==
    /\ Len(pc) < MaxPasses
    /\ pc' = Append(pc, NewPass(OrdersToCheck(orders)))
    /\ sweepRes' = IF OrdersToCheck(orders) = <<>> THEN NoSweepResult
                   ELSE sweepRes
    /\ PassWrites(SweepWorld)

\* getOrder and the guards on the row.
PassGuard(p) ==
    LET o == Head(pc[p].todo)
        order == orders[o]
    IN  /\ pc[p].at = "guard"
        /\ IF \/ order.status = "absent"
              \/ AlreadySwept(order)
              \/ SweepRefusesStatus(order)
              \/ order.payment_address = "legacy"
           THEN PassReturns(p, PassWorld(p), "false")
           ELSE PassGoes(p, PassWorld(p), "balance", order, 0, {})

\* getBalance and the dust and tolerance checks.
PassBalance(p) ==
    LET o == Head(pc[p].todo)
        balance == payBal[o]
    IN  /\ pc[p].at = "balance"
        /\ IF \/ balance < MIN_SWEEP_LAMPORTS
              \/ BelowTolerance(balance,
                                ExpectedLamports(pc[p].order.total_cost))
           THEN PassReturns(p, PassWorld(p), "false")
           ELSE PassGoes(p, PassWorld(p), "fees", pc[p].order, balance, {})

\* The fee transfer, of the share of the balance the pass read.
PassSendFees(p) ==
    LET o == Head(pc[p].todo)
        fee == ServiceFeeAmount(pc[p].balance)
        ok == CanSend(payBal[o], fee)
        w == SendFees(PassWorld(p), o, fee, ok)
    IN  /\ pc[p].at = "fees"
        /\ IF ok
           THEN PassGoes(p, w, "ops", pc[p].order, pc[p].balance,
                         {<<o, "fees">>})
           ELSE PassReturns(p, w, "throw")

\* The operations transfer.
PassSendOps(p) ==
    LET o == Head(pc[p].todo)
        ops == OpsAmount(pc[p].balance)
        ok == CanSend(payBal[o], ops)
        w == SendOps(PassWorld(p), o, ops, ok)
    IN  /\ pc[p].at = "ops"
        /\ IF ok
           THEN PassGoes(p, w, "record", pc[p].order, pc[p].balance,
                         {<<o, "ops">>})
           ELSE PassReturns(p, w, "throw")

\* The receipt update.
PassRecord(p) ==
    /\ pc[p].at = "record"
    /\ PassReturns(p, RecordSweep(PassWorld(p), Head(pc[p].todo)), "true")

PassSteps ==
    \E p \in DOMAIN pc :
        \/ PassGuard(p)
        \/ PassBalance(p)
        \/ PassSendFees(p)
        \/ PassSendOps(p)
        \/ PassRecord(p)

(***************************************************************************)
(* Overlapping scheduling passes.  The processor endpoint takes no lock    *)
(* either: a second invocation can start while the first is between two    *)
(* awaits.  An entry of pc is then one invocation: where it is, the lists  *)
(* of orders it read, the task rows processOrderTasks read before its      *)
(* loop, and what the tick at hand decided.                                *)
(***************************************************************************)
NewRun ==
    [at |-> "start", pending |-> GetPendingOrders(orders), running |-> <<>>,
     snapshot |-> <<>>, todo |-> <<>>, sell |-> FALSE, trade |-> 0,
     toFund |-> 0]

\* What a step of an invocation leaves in the store and on chain; f is the
\* number of network faults of the step.
RunWrites(w, f) ==
    /\ faults + f <= MaxFaults
    /\ faults' = faults + f
    /\ orders' = w.orders
    /\ tasks' = w.tasks
    /\ txs' = w.txs
    /\ budgetBal' = w.budgetBal
    /\ opsBal' = w.opsBal
    /\ walletBal' = w.walletBal
    /\ tokenBal' = w.tokenBal
    /\ UNCHANGED <<payBal, feesBal, now, uiVars, resVars, userBal, deposits,
                   feeBps, masterSeed, opsSecret, hist>>

\* An invocation of the endpoint reads the orders ready to start.
RunStart ==
    /\ Len(pc) < MaxPasses
    /\ pc' = Append(pc, NewRun)
    /\ RunWrites(EngineWorld, 0)

\* The start loop of the handler: startVolumeGeneration of the next order
\* read; what it throws is caught and the loop goes on.
RunStartOrder(p) ==
    /\ pc[p].at = "start"
    /\ pc[p].pending # <<>>
    /\ pc' = [pc EXCEPT ![p].pending = Tail(@)]
    /\ RunWrites(StartVolumeGeneration(EngineWorld, Head(pc[p].pending),
                                       FALSE), 0)

\* processAllPendingTasks reads the running orders.
RunListOrders(p) ==
    /\ pc[p].at = "start"
    /\ pc[p].pending = <<>>
    /\ pc' = [pc EXCEPT ![p].at = "order",
                        ![p].running = GetOrdersByStatus(orders, "running")]
    /\ RunWrites(EngineWorld, 0)

\* processOrderTasks reads the order and its task rows, and creates the
\* rows of a running order that has none.
RunReadTasks(p) ==
    LET o == Head(pc[p].running)
        w == IF GetOrderTasks(tasks, o) = {}
             THEN CreateVolumeTasks(EngineWorld, o) ELSE EngineWorld
    IN  /\ pc[p].at = "order"
        /\ IF pc[p].running = <<>> THEN
                /\ pc' = [pc EXCEPT ![p].at = "done"]
                /\ RunWrites(EngineWorld, 0)
           ELSE IF orders[o].status # "running" THEN
                /\ pc' = [pc EXCEPT ![p].running = Tail(@)]
                /\ RunWrites(EngineWorld, 0)
           ELSE
                /\ pc' = [pc EXCEPT
                            ![p].at = "loop",
                            ![p].snapshot = w.tasks,
                            ![p].todo = AsSeq(GetOrderTasks(w.tasks, o))]
                /\ RunWrites(w, 0)

\* The head of the loop: a row that is completed or not due is skipped, a
\* pending one is marked running.
RunNextTask(p) ==
    LET t == Head(pc[p].todo)
        task == pc[p].snapshot[t]
    IN  /\ pc[p].at = "loop"
        /\ IF pc[p].todo = <<>> THEN
                /\ pc' = [pc EXCEPT ![p].at = "check"]
                /\ RunWrites(EngineWorld, 0)
           ELSE IF ~TickIsDue(task) THEN
                /\ pc' = [pc EXCEPT ![p].todo = Tail(@)]
                /\ RunWrites(EngineWorld, 0)
           ELSE
                /\ pc' = [pc EXCEPT ![p].at = "balance"]
                /\ RunWrites(
                      IF task.status = "pending"
                      THEN [EngineWorld EXCEPT !.tasks = UpdateVolumeTask(@,
                                t, [status |-> "running"])]
                      ELSE EngineWorld, 0)

\* executeBuySellCycle chooses its action, and ensureTradingWalletFunded
\* reads the balance of the wallet and, if that is short, of the budget.
RunBalance(p, trade) ==
    LET t == Head(pc[p].todo)
        o == Head(pc[p].running)
        sell == ShouldSell(EngineWorld, t)
        required == IF sell THEN SellFeeLamports ELSE trade * 2
        toFund == ToFund(required, walletBal[t], budgetBal[o])
    IN  /\ pc[p].at = "balance"
        /\ pc' = [pc EXCEPT
                    ![p].at = IF walletBal[t] >= required THEN "swap"
                              ELSE IF toFund <= 0 THEN "catch"
                              ELSE "fund",
                    ![p].sell = sell,
                    ![p].trade = trade,
                    ![p].toFund = IF walletBal[t] >= required THEN 0
                                  ELSE toFund]
        /\ RunWrites(EngineWorld, 0)

\* fundTradingWallet sends the amount computed from the balances read; a
\* transfer that fails gives null, which the caller does not look at.
RunFund(p, fund) ==
    LET t == Head(pc[p].todo)
        o == Head(pc[p].running)
        toFund == pc[p].toFund
        lands == fund = "ok" /\ CanSend(budgetBal[o], toFund)
    IN  /\ pc[p].at = "fund"
        /\ pc' = [pc EXCEPT ![p].at = "swap"]
        /\ RunWrites([EngineWorld EXCEPT
                          !.budgetBal[o] = IF lands THEN @ - toFund - TxFee
                                           ELSE @,
                          !.walletBal[t] = IF lands THEN @ + toFund ELSE @],
                     IF fund = "lost" THEN 1 ELSE 0)

\* The swap, its transaction row, and the sweep after a sell.
RunSwap(p, swap) ==
    LET t == Head(pc[p].todo)
        w == EngineWorld
        type == IF pc[p].sell THEN "sell" ELSE "buy"
        needs == IF pc[p].sell THEN TxFee ELSE pc[p].trade + TxFee
        ok == swap = "ok" /\ walletBal[t] >= needs
        row == [w EXCEPT !.txs[t] = <<type>> \o @]
        sold == [row EXCEPT !.walletBal[t] = @ + tokenBal[t] - TxFee,
                            !.tokenBal[t] = 0]
        bought == [row EXCEPT !.walletBal[t] = @ - pc[p].trade - TxFee,
                              !.tokenBal[t] = @ + pc[p].trade]
    IN  /\ pc[p].at = "swap"
        /\ pc' = [pc EXCEPT ![p].at = IF ok THEN "update" ELSE "catch"]
        /\ RunWrites(IF ~ok THEN row
                     ELSE IF pc[p].sell THEN SweepTradingWallet(sold, t)
                     ELSE bought,
                     IF swap = "fail" THEN 1 ELSE 0)

\* The progress update, computed from the row read before the loop.
RunUpdate(p) ==
    LET t == Head(pc[p].todo)
        task == pc[p].snapshot[t]
        newCyclesCompleted == task.cycles_completed + 1
    IN  /\ pc[p].at = "update"
        /\ pc' = [pc EXCEPT ![p].at = "loop", ![p].todo = Tail(@)]
        /\ RunWrites([EngineWorld EXCEPT !.tasks = UpdateVolumeTask(@, t,
                        [cycles_completed |-> newCyclesCompleted,
                         current_volume |-> NewVolume(task, newCyclesCompleted),
                         last_transaction_at |-> now,
                         status |->
                            StatusAfterCycle(task, newCyclesCompleted)])], 0)

\* The catch block of the loop.
RunCatch(p) ==
    LET t == Head(pc[p].todo)
    IN  /\ pc[p].at = "catch"
        /\ pc' = [pc EXCEPT ![p].at = "loop", ![p].todo = Tail(@)]
        /\ RunWrites([EngineWorld EXCEPT !.tasks = UpdateVolumeTask(@, t,
                        FailedTaskUpdate(pc[p].snapshot[t]))], 0)

\* After the loop the rows are read again, and the order whose rows are all
\* completed is stopped.
RunCheck(p) ==
    LET o == Head(pc[p].running)
        updatedTasks == GetOrderTasks(tasks, o)
        completedTasks == {t \in updatedTasks : tasks[t].status = "completed"}
    IN  /\ pc[p].at = "check"
        /\ pc' = [pc EXCEPT ![p].at = "order", ![p].running = Tail(@)]
        /\ RunWrites(IF completedTasks = updatedTasks
                     THEN StopVolumeGeneration(EngineWorld, o)
                     ELSE EngineWorld, 0)

RunSteps ==
    \E p \in DOMAIN pc :
        \/ RunStartOrder(p)
        \/ RunListOrders(p)
        \/ RunReadTasks(p)
        \/ RunNextTask(p)
        \/ \E trade \in TradeSizes : RunBalance(p, trade)
        \/ \E fund \in {"ok", "lost"} : RunFund(p, fund)
        \/ \E swap \in {"ok", "fail"} : RunSwap(p, swap)
        \/ RunUpdate(p)
        \/ RunCatch(p)
        \/ RunCheck(p)

(***************************************************************************)
(* Time.                                                                   *)
(***************************************************************************)
\* The clock moves in steps of the interval of a one-task three-day order.
ClockStep == IntervalMinutes(CalculateOrderCost(75000, 72))
Advance ==
    /\ now + ClockStep <= MaxTime * ClockStep
    /\ now' = now + ClockStep
    /\ UNCHANGED <<orders, taskVars, treasuryVars, payBal, uiVars, resVars,
                   envVars, hist, pc>>

(***************************************************************************)
(* The system.                                                             *)
(***************************************************************************)

Init ==
    /\ orders = [o \in Orders |-> NoOrder]
    /\ tasks = <<>>
    /\ txs = <<>>
    /\ payBal = [o \in Orders |-> 0]
    /\ budgetBal = [o \in Orders |-> 0]
    /\ feesBal = 0
    /\ opsBal = 0
    /\ walletBal = <<>>
    /\ tokenBal = <<>>
    /\ now = 0
    /\ session = "none"
    /\ buttons = [o \in Orders |-> {}]
    /\ returned = NoReturn
    /\ sweepRes = NoSweepResult
    /\ procRes = NoProcessorResult
    /\ fundLog = NoFundCall
    /\ userBal = UserFunds
    /\ hist = [o \in Orders |-> NoHist]
    /\ deposits = 0
    /\ faults = 0
    /\ feeBps = FEE_BPS
    /\ masterSeed = WalletMasterSeed
    /\ opsSecret = ""
    /\ pc = <<>>

\* The customer's steps up to payment.
OrderingOf(os, amounts) ==
    \/ \E o \in os : CreateDraftOrder(o)
    \/ \E v \in VolumePackages, d \in Durations : SelectOptions(v, d)
    \/ \E o \in os, a \in amounts : Deposit(o, a)
    \/ HandlePaymentCheck

Ordering == OrderingOf(Orders, DepositAmounts)

\* The first customer alone places an order.
OneOrder == OrderingOf({OrderSeq[1]}, DepositAmounts)

\* The first customer alone places an order and pays it in one transfer.
PaidInFull == OrderingOf({OrderSeq[1]}, {ExpectedLamports(BaseCostPerTask)})

\* The customer's order buttons.
Buttons ==
    \/ ShowOrdersList
    \/ \E o \in Orders : HandlePauseOrder(o)
    \/ \E o \in Orders : HandleResumeOrder(o)
    \/ \E o \in Orders : HandleStopOrder(o)

\* The customer's delete buttons.
DeleteButtons ==
    \/ \E o \in Orders : HandleDeleteOrder(o)
    \/ \E o \in Orders : HandleConfirmDelete(o)

Next ==
    \/ Ordering
    \/ SweepPass
    \/ ProcessorPass
    \/ ProcessorPassOutage
    \/ ProcessorPassAborted
    \/ Buttons
    \/ DeleteButtons
    \/ \E o \in Orders : AdminResume(o)
    \/ \E o \in Orders, a \in FundAmounts : AdminFund(o, a)
    \/ \E o \in Orders : AdminRunNow(o)
    \/ Advance
    \/ PassStart
    \/ PassSteps
    \/ RunStart
    \/ RunSteps

Spec == Init /\ [][Next]_vars

\* Payment and sweep: the customer orders and pays, the two cron passes run,
\* nobody funds the order's budget and no time passes.
NextSweep ==
    \/ OneOrder
    \/ SweepPass
    \/ ProcessorPass

SpecSweep == Init /\ [][NextSweep]_vars

\* The order's status: every operation that writes it.
NextStatus ==
    \/ PaidInFull
    \/ SweepPass
    \/ ProcessorPass
    \/ Buttons
    \/ \E o \in Orders : AdminResume(o)

SpecStatus == Init /\ [][NextStatus]_vars

\* Scheduling: an order that has been paid in full, swept and started is
\* funded by the admin and ticked as time passes.  The pass that started it
\* found its budget empty, so its task's first tick failed.
PaidOrder ==
    [NoOrder EXCEPT !.status = "running", !.payment_address = "derived",
                    !.payment_signature = SweepReceipt(1, 1),
                    !.total_cost = BaseCostPerTask, !.tasks_count = 1,
                    !.duration_hours = 72, !.started_at = 0]

InitPaid(rows) ==
    /\ feeBps = FEE_BPS
    /\ masterSeed = WalletMasterSeed
    /\ opsSecret = ""
    /\ orders = [o \in Orders |-> IF o = OrderSeq[1] THEN PaidOrder ELSE NoOrder]
    /\ tasks = rows
    /\ txs = << <<>> >>
    /\ walletBal = <<0>>
    /\ tokenBal = <<0>>
    /\ payBal = [o \in Orders |-> 0]
    /\ budgetBal = [o \in Orders |-> 0]
    /\ feesBal = ServiceFeeAmount(ExpectedLamports(BaseCostPerTask))
    /\ opsBal = OpsAmount(ExpectedLamports(BaseCostPerTask))
    /\ now = 0
    /\ session = OrderSeq[1]
    /\ buttons = [o \in Orders |-> {}]
    /\ returned = NoReturn
    /\ sweepRes = [NoSweepResult EXCEPT
                      !.processed = 1, !.swept = {OrderSeq[1]},
                      !.transfers = [o \in Orders |->
                                        IF o = OrderSeq[1] THEN 2 ELSE 0]]
    /\ procRes = [NoProcessorResult EXCEPT !.started = {OrderSeq[1]},
                                           !.created = {OrderSeq[1]}]
    /\ fundLog = NoFundCall
    /\ userBal = UserFunds - ExpectedLamports(BaseCostPerTask)
    /\ deposits = 1
    /\ hist = [o \in Orders |->
                  IF o = OrderSeq[1] THEN [feeSent |-> 1, opsSent |-> 1]
                  ELSE NoHist]
    /\ faults = 0
    /\ pc = <<>>

InitSched ==
    InitPaid(UpdateVolumeTask(NewTaskRows(OrderSeq[1], PaidOrder), 1,
                [status |-> "failed", last_transaction_at |-> 0]))

NextSched ==
    \/ ProcessorPass
    \/ \E o \in Orders : AdminResume(o)
    \/ \E o \in Orders, a \in FundAmounts : AdminFund(o, a)
    \/ \E o \in Orders : AdminRunNow(o)
    \/ Advance

SpecSched == InitSched /\ [][NextSched]_vars

(***************************************************************************)
(* Properties of the sweep.                                                *)
(***************************************************************************)
\* A step is a sweep pass that swept o.
SweptBy(o) == SweepPass /\ o \in sweepRes'.swept

\* C1: a sweep pass run on an order that the pass before it swept submits
\* no transfer for it, does not count it as swept, and leaves its receipt,
\* its payment address and the count of its transfers as they were; and no
\* pass sends more than one fee and one operations transfer for an order.
C1_SecondPassIsNoOp ==
    [][\A o \in Orders :
        /\ (o \in sweepRes.swept /\ SweepPass) =>
              /\ sweepRes'.transfers[o] = 0
              /\ o \notin sweepRes'.swept
              /\ orders'[o].payment_signature = orders[o].payment_signature
              /\ hist'[o] = hist[o]
              /\ payBal'[o] = payBal[o]
        /\ hist'[o].feeSent <= hist[o].feeSent + 1
        /\ hist'[o].opsSent <= hist[o].opsSent + 1]_vars

\* C1 witness: a pass has run over a swept order whose payment address
\* holds a sweepable balance again, and left it alone.
C1_Witness ==
    \E o \in Orders :
        /\ AlreadySwept(orders[o])
        /\ hist[o] = [feeSent |-> 1, opsSent |-> 1]
        /\ payBal[o] >= MIN_SWEEP_LAMPORTS
        /\ sweepRes.processed >= 1
        /\ sweepRes.swept = {}
        /\ sweepRes.errors = {}
        /\ sweepRes.transfers[o] = 0

\* C3: whatever legs fail and are retried by later passes, no leg of an
\* order's sweep is sent more than once.
C3_EachLegSentOnce ==
    \A o \in Orders : hist[o].feeSent <= 1 /\ hist[o].opsSent <= 1

\* C5: a successful sweep credits the operations share to the global
\* operations treasury and leaves the order's ops-budget address untouched.
C5_OpsShareToTreasury ==
    [][\A o \in Orders : SweptBy(o) =>
        /\ opsBal' >= opsBal + OpsAmount(payBal[o])
        /\ budgetBal'[o] = budgetBal[o]]_vars

\* C5 as claimed: a successful sweep credits the operations share to the
\* order's ops-budget address, not to the global operations treasury.
C5_OpsShareToBudget ==
    [][\A o \in Orders : SweptBy(o) =>
        /\ budgetBal'[o] = budgetBal[o] + OpsAmount(payBal[o])
        /\ opsBal' = opsBal]_vars

\* C5 witness: an order has been swept and the treasury holds its share.
C5_Witness ==
    \E o \in Orders :
        /\ o \in sweepRes.swept
        /\ hist[o].opsSent = 1
        /\ opsBal > 0
        /\ budgetBal[o] = 0

\* C7: a successful sweep moves a pending order to payment_confirmed and
\* leaves the status of an order that is already past it.
C7_SweepKeepsLaterStatus ==
    [][\A o \in Orders : SweptBy(o) =>
        orders'[o].status =
            IF orders[o].status = "pending_payment"
            THEN "payment_confirmed" ELSE orders[o].status]_vars

(***************************************************************************)
(* Funding a trading wallet: ensureTradingWalletFunded applied to a task   *)
(* of a running order, for wallet and budget balances around the reserve   *)
(* and the amounts a tick asks for.                                        *)
(***************************************************************************)
FundWalletBalances == {0, TradingMinBalance, MinTradeLamports}
FundBudgetBalances ==
    {0, BudgetReserve, BudgetReserve + 1, BudgetReserve + TxFee,
     MinTradeLamports, 2 * MinTradeLamports + BudgetReserve,
     LAMPORTS_PER_SOL \div 2}
FundRequired == {SellFeeLamports, 2 * MinTradeLamports, 2 * (MaxTradeLamports - 1)}

InitFund ==
    /\ feeBps = FEE_BPS
    /\ masterSeed = WalletMasterSeed
    /\ opsSecret = ""
    /\ orders = [o \in Orders |->
            IF o = OrderSeq[1]
            THEN [NoOrder EXCEPT !.status = "running",
                                 !.payment_address = "derived",
                                 !.payment_signature = SweepReceipt(1, 1),
                                 !.total_cost = BaseCostPerTask,
                                 !.tasks_count = 1, !.duration_hours = 72,
                                 !.started_at = 0]
            ELSE NoOrder]
    /\ tasks = NewTaskRows(OrderSeq[1], orders[OrderSeq[1]])
    /\ txs = << <<>> >>
    /\ walletBal \in [{1} -> FundWalletBalances]
    /\ tokenBal = <<0>>
    /\ payBal = [o \in Orders |-> 0]
    /\ \E b \in FundBudgetBalances :
           budgetBal = [o \in Orders |-> IF o = OrderSeq[1] THEN b ELSE 0]
    /\ feesBal = ServiceFeeAmount(ExpectedLamports(BaseCostPerTask))
    /\ opsBal = 0
    /\ now = 0
    /\ session = "none"
    /\ buttons = [o \in Orders |-> {}]
    /\ returned = NoReturn
    /\ sweepRes = NoSweepResult
    /\ procRes = NoProcessorResult
    /\ fundLog = NoFundCall
    /\ userBal = 0
    /\ deposits = 0
    /\ hist = [o \in Orders |->
                  IF o = OrderSeq[1] THEN [feeSent |-> 1, opsSent |-> 1]
                  ELSE NoHist]
    /\ faults = 0
    /\ pc = <<>>

\* One call of ensureTradingWalletFunded(wallet of t, required, order of t).
FundCall(t, required, env) ==
    LET w == EnsureTradingWalletFunded(EngineWorld, t, required,
                                       tasks[t].order_id, env)
    IN  /\ budgetBal' = w.budgetBal
        /\ walletBal' = w.walletBal
        /\ fundLog' = w.fund
        /\ UNCHANGED <<orders, tasks, txs, tokenBal, feesBal, opsBal, payBal,
                       now, uiVars, sweepRes, procRes, envVars, hist, pc>>

NextFund ==
    \E t \in DOMAIN tasks, required \in FundRequired, env \in TickEnvs :
        FundCall(t, required, env)

SpecFund == InitFund /\ [][NextFund]_vars

\* The shortfall of the last funding call.
Shortfall == fundLog.required - fundLog.wallet

\* C2: when the wallet is short, a budget at or under the reserve makes the
\* call fail with no transfer submitted; a budget above it has one transfer
\* submitted, of the shortfall or of the budget less the reserve, whichever
\* is smaller; never more than the budget less the reserve.
C2_FundingCappedByBudget ==
    (fundLog.result # "none" /\ Shortfall > 0) =>
        /\ fundLog.budget <= BudgetReserve =>
              fundLog.result = "throw" /\ fundLog.attempted = 0
        /\ fundLog.budget > BudgetReserve =>
              /\ fundLog.result = "funded"
              /\ fundLog.attempted =
                    Min(Shortfall, fundLog.budget - BudgetReserve)
        /\ fundLog.attempted <= Max(0, fundLog.budget - BudgetReserve)

\* C2 as claimed: a shortfall above the budget less the reserve makes the
\* call fail with no transfer submitted; otherwise exactly the shortfall is
\* transferred.
C2_FailsWhenBudgetShort ==
    (fundLog.result # "none" /\ Shortfall > 0) =>
        IF Shortfall > fundLog.budget - BudgetReserve
        THEN fundLog.result = "throw" /\ fundLog.attempted = 0
        ELSE fundLog.result = "funded" /\ fundLog.attempted = Shortfall

\* C2 witness: a call funded less than the shortfall.
C2_Witness ==
    /\ fundLog.result = "funded"
    /\ fundLog.attempted > 0
    /\ fundLog.attempted < Shortfall
    /\ fundLog.attempted = fundLog.budget - BudgetReserve

\* Overlapping sweep passes over the orders the customer pays.
NextConc == OneOrder \/ PassStart \/ PassSteps

SpecConc == Init /\ [][NextConc]_vars

\* C4: whatever the interleaving of the passes, no two of them send the
\* same leg of the same order: the fee transfer of an order is sent by at
\* most one pass, and so is its operations transfer.
C4_OverlappingPassesSendOnce ==
    \A o \in Orders : \A leg \in {"fees", "ops"} :
        Cardinality({p \in DOMAIN pc : <<o, leg>> \in pc[p].legs}) <= 1

(***************************************************************************)
(* Properties of the order's status and of task creation.                  *)
(***************************************************************************)
\* How far along the chain a status is.
StatusRank(st) ==
    IF st = "absent" THEN 0
    ELSE IF st = "pending_payment" THEN 1
    ELSE IF st = "payment_confirmed" THEN 2
    ELSE IF st \in {"running", "paused"} THEN 3
    ELSE 4

\* C6: no operation takes an order back to an earlier status of the chain
\* pending_payment, payment_confirmed, running or paused, completed, and
\* no operation changes the status of a completed, cancelled or failed
\* order.
C6_StatusOnlyMovesForward ==
    [][\A o \in Orders :
        /\ StatusRank(orders'[o].status) >= StatusRank(orders[o].status)
        /\ orders[o].status \in TerminalStatus =>
              orders'[o].status = orders[o].status]_vars

\* C8: an order that becomes running was payment_confirmed or paused just
\* before.
C8_RunningOnlyFromConfirmedOrPaused ==
    [][\A o \in Orders :
        (orders'[o].status = "running" /\ orders[o].status # "running") =>
            orders[o].status \in {"payment_confirmed", "paused"}]_vars

\* C9: an order that has tasks never gets another one, whichever of the
\* payment check, the sweep and the start passes confirm or start it again,
\* and an order never has more tasks than its tasks_count.
C9_TasksCreatedOnce ==
    [][\A o \in Orders :
        /\ GetOrderTasks(tasks, o) # {} =>
              GetOrderTasks(tasks', o) = GetOrderTasks(tasks, o)
        /\ Cardinality(GetOrderTasks(tasks', o)) <= orders'[o].tasks_count]_vars

\* C9 witness: an order confirmed anew after its tasks were created has been
\* started again by a pass that created no task for it.
C9_Witness ==
    \E o \in Orders :
        /\ o \in procRes.started
        /\ o \notin procRes.created
        /\ AlreadySwept(orders[o])
        /\ GetOrderTasks(tasks, o) # {}
        /\ Cardinality(GetOrderTasks(tasks, o)) = orders[o].tasks_count

(***************************************************************************)
(* Properties of the scheduling passes.                                    *)
(***************************************************************************)
\* C10: from one pass to the next no task is lost, no task's
\* cycles_completed goes down, and none exceeds the task's total_cycles.
C10_CyclesMonotoneAndBounded ==
    [][\A t \in DOMAIN tasks :
        /\ t \in DOMAIN tasks'
        /\ tasks'[t].cycles_completed >= tasks[t].cycles_completed
        /\ tasks'[t].cycles_completed <= tasks'[t].total_cycles]_vars

\* C10 witness: a pass has run over an order set running again after its
\* task had done all its cycles and its interval had elapsed; the pass
\* ticked nothing and completed the order again.
C10_Witness ==
    \E t \in DOMAIN tasks :
        /\ tasks[t].cycles_completed = tasks[t].total_cycles
        /\ tasks[t].status = "completed"
        /\ now - tasks[t].last_transaction_at >= tasks[t].interval_minutes
        /\ orders[tasks[t].order_id].started_at = now
        /\ orders[tasks[t].order_id].completed_at = now
        /\ procRes.processedTasks = 0
        /\ tasks[t].order_id \in procRes.completedOrders

(***************************************************************************)
(* Task and order completion.                                              *)
(***************************************************************************)

AllTasksCompleted(tbl, o) ==
    \A t \in GetOrderTasks(tbl, o) : tbl[t].status = "completed"

\* C12: an order becomes completed exactly when all of its tasks are
\* completed: no step marks an order completed while one of its tasks is
\* pending, running or failed, and a step that ticks a task of a running
\* order and leaves all its tasks completed marks the order completed and
\* stamps completed_at.
C12_OrderCompletedIffTasksCompleted ==
    [][\A o \in Orders :
        /\ (orders[o].status # "completed" /\ orders'[o].status = "completed")
              => AllTasksCompleted(tasks', o)
        /\ (/\ orders[o].status = "running"
            /\ GetOrderTasks(tasks, o) # {}
            /\ ~AllTasksCompleted(tasks, o)
            /\ AllTasksCompleted(tasks', o))
              => /\ orders'[o].status = "completed"
                 /\ orders'[o].completed_at = now']_vars

(***************************************************************************)
(* Ticks.                                                                  *)
(***************************************************************************)

\* The tick of task t in this step issued a swap of the given type: it wrote
\* a transaction row of that type.
Issued(t, type) ==
    /\ t \in DOMAIN txs
    /\ Len(txs'[t]) > Len(txs[t])
    /\ Head(txs'[t]) = type

\* C13: at every due tick, a task whose wallet holds tokens issues a sell and
\* no buy; a buy is issued only when the wallet holds no tokens.
C13_SellWhenHoldingTokens ==
    [][\A t \in DOMAIN tokenBal :
        /\ (tokenBal[t] > 0 /\ Len(txs'[t]) > Len(txs[t]))
              => Issued(t, "sell")
        /\ Issued(t, "buy") => tokenBal[t] = 0]_vars

\* The tick of task t in this step failed: the catch block of the loop wrote
\* the task's row.
TickFailed(t) ==
    /\ tasks'[t].status = "failed"
    /\ \/ t \notin DOMAIN tasks
       \/ tasks[t].status # "failed"
       \/ tasks[t].last_transaction_at # tasks'[t].last_transaction_at

\* C14: no tick failure is silent: a tick that fails writes a transaction row
\* for its task or adds an error string to the result of the pass.
C14_NoSilentTickFailure ==
    [][\A t \in DOMAIN tasks' :
        TickFailed(t) =>
            \/ Len(txs'[t]) > (IF t \in DOMAIN txs THEN Len(txs[t]) ELSE 0)
            \/ tasks'[t].order_id \in procRes'.errors]_vars

\* C15: when a tick fails, the task becomes failed and last_transaction_at is
\* the time of the failure, while cycles_completed and current_volume keep
\* their values: whatever the network does to a due task of a running order.
C15_FailedTickKeepsProgress ==
    \A t \in DOMAIN tasks, env \in TickEnvs :
        LET task == tasks[t]
            o == task.order_id
            cycle == ExecuteBuySellCycle(EngineWorld, t, o, env)
            after == TickTask(EngineWorld, t, task, o, env).tasks[t]
        IN  (orders[o].status = "running" /\ TickIsDue(task) /\ cycle.threw)
                => /\ after.status = "failed"
                   /\ after.last_transaction_at = now
                   /\ after.cycles_completed = task.cycles_completed
                   /\ after.current_volume = task.current_volume

\* A task that made a cycle before has just failed a tick at a later time.
C15_Witness ==
    \E t \in DOMAIN tasks :
        /\ tasks[t].status = "failed"
        /\ tasks[t].cycles_completed > 0
        /\ tasks[t].current_volume = NewVolume(tasks[t], tasks[t].cycles_completed)
        /\ tasks[t].last_transaction_at = now
        /\ now > 0
        /\ orders[tasks[t].order_id].status = "running"

(***************************************************************************)
(* The due decision, minute by minute.                                     *)
(***************************************************************************)

\* Date.now() moves on by a minute.
Minute ==
    /\ now < MaxMinutes
    /\ now' = now + 1
    /\ UNCHANGED <<orders, taskVars, treasuryVars, payBal, uiVars, resVars,
                   envVars, hist, pc>>

\* The task of the paid order in any status, ticked at time 0 or never, with
\* an interval below, at and above the retry cooldown.
DueIntervals == {1, RetryCooldownMinutes - 1, RetryCooldownMinutes,
                 RetryCooldownMinutes + 1}
DueTasks ==
    {[NewTaskRows(OrderSeq[1], PaidOrder)[1] EXCEPT
         !.status = st, !.last_transaction_at = last,
         !.interval_minutes = iv,
         !.cycles_completed = IF st = "completed" THEN TotalCycles ELSE 0,
         !.current_volume = IF st = "completed" THEN VolumePerTask ELSE 0] :
        st \in TaskStatus, last \in {NoTime, 0}, iv \in DueIntervals}

InitDue == \E row \in DueTasks : InitPaid(<<row>>)

NextDue == Minute

SpecDue == InitDue /\ [][NextDue]_vars

\* The rule of the due decision, on the four inputs alone.
DueRule(status, last, interval, time) ==
    CASE status = "pending" -> TRUE
      [] status = "completed" -> FALSE
      [] status = "running" -> last = NoTime \/ time - last >= interval
      [] status = "failed" ->
            last = NoTime \/ time - last >= RetryCooldownMinutes

\* C17: the due decision depends only on the task's status,
\* last_transaction_at and interval_minutes and on the current time: pending
\* is always due, completed never, running when never ticked or the interval
\* has passed, failed when never ticked or the 5-minute cooldown has passed.
C17_DueDecision ==
    \A t \in DOMAIN tasks :
        tasks[t].status \in {"pending", "completed", "running", "failed"}
            => (ShouldExecuteTask(tasks[t])
                  <=> DueRule(tasks[t].status, tasks[t].last_transaction_at,
                              tasks[t].interval_minutes, now))

\* A failed task is due at the cooldown though its interval has not passed.
C17_Witness ==
    \E t \in DOMAIN tasks :
        /\ tasks[t].status = "failed"
        /\ tasks[t].last_transaction_at # NoTime
        /\ now - tasks[t].last_transaction_at = RetryCooldownMinutes
        /\ tasks[t].interval_minutes > RetryCooldownMinutes
        /\ ShouldExecuteTask(tasks[t])

(***************************************************************************)
(* Retry of a failed task: passes, minutes and the admin's funding.        *)
(***************************************************************************)

NextRetry ==
    \/ ProcessorPass
    \/ Minute
    \/ \E o \in Orders, a \in FundAmounts : AdminFund(o, a)

SpecRetry == InitSched /\ [][NextRetry]_vars

\* What the tick of task t asks its wallet to hold.
RequiredFor(t, env) ==
    IF ShouldSell(EngineWorld, t) THEN SellFeeLamports ELSE env.trade * 2

\* The budget of order o covers what the wallet of task t lacks.
BudgetCovers(t, o, env) ==
    MaxFund(budgetBal[o]) >= RequiredFor(t, env) - walletBal[t]

\* C16: no task stays failed: while its order is running, a scheduling pass
\* that runs at least the 5-minute cooldown after the failure ticks the
\* task again, whatever the network does, and with the network up and a
\* budget that covers the shortfall the tick makes a cycle and the task
\* leaves failed.
C16_FailedTaskRetried ==
    \A t \in DOMAIN tasks, env \in TickEnvs :
        LET task == tasks[t]
            o == task.order_id
            pass == VolumeProcessor(EngineWorld, {}, [x \in Orders |-> env])
            after == pass.tasks[t]
        IN  (/\ task.status = "failed"
             /\ orders[o].status = "running"
             /\ task.last_transaction_at # NoTime
             /\ now - task.last_transaction_at >= RetryCooldownMinutes)
                => /\ after.last_transaction_at = now
                   /\ \/ after.status = "failed"
                      \/ after.cycles_completed = task.cycles_completed + 1
                   /\ (env.swap = "ok" /\ env.fund = "ok"
                            /\ BudgetCovers(t, o, env))
                        => /\ after.status \in {"running", "completed"}
                           /\ after.cycles_completed
                                  = task.cycles_completed + 1

\* The task that failed at time 0 made its first cycle in the pass of minute 5.
C16_Witness ==
    \E t \in DOMAIN tasks :
        /\ tasks[t].status = "running"
        /\ tasks[t].cycles_completed = 1
        /\ tasks[t].last_transaction_at = RetryCooldownMinutes
        /\ now = RetryCooldownMinutes
        /\ txs[t] = <<"buy">>

(***************************************************************************)
(* A batch of two orders: the sweep pass and the scheduling pass.          *)
(***************************************************************************)

\* What a payment address may hold: nothing, dust, the minimum sweep, just
\* short of the tolerated payment, the tolerated payment.
BatchBalances ==
    LET expected == ExpectedLamports(BaseCostPerTask)
        tolerated == expected - expected \div 100
    IN  {0, MIN_SWEEP_LAMPORTS - 1, MIN_SWEEP_LAMPORTS, tolerated - 1,
         tolerated}

\* An unswept order: awaiting payment, its stored address the derived one,
\* a legacy one or still the placeholder of createOrder; or set running by
\* the admin resume route.
BatchOrders ==
    {[NoOrder EXCEPT !.status = "pending_payment", !.payment_address = addr,
                     !.total_cost = BaseCostPerTask, !.tasks_count = 1,
                     !.duration_hours = 72] :
        addr \in {"derived", "legacy", "TEMP"}}
    \cup {[NoOrder EXCEPT !.status = "running",
                          !.payment_address = "derived",
                          !.total_cost = BaseCostPerTask, !.tasks_count = 1,
                          !.duration_hours = 72, !.started_at = 0]}

\* Two unswept orders whose payment addresses hold, together, no more than
\* the customer had.
InitBatch ==
    /\ orders \in [Orders -> BatchOrders]
    /\ payBal \in [Orders -> BatchBalances]
    /\ \A o \in Orders, p \in Orders :
          o # p => payBal[o] <= UserFunds - payBal[p]
    /\ userBal = UserFunds - payBal[OrderSeq[1]] - payBal[OrderSeq[2]]
    /\ deposits = Cardinality({o \in Orders : payBal[o] > 0})
    /\ tasks = <<>>
    /\ txs = <<>>
    /\ walletBal = <<>>
    /\ tokenBal = <<>>
    /\ budgetBal = [o \in Orders |-> 0]
    /\ feesBal = 0
    /\ opsBal = 0
    /\ now = 0
    /\ session = "none"
    /\ buttons = [o \in Orders |-> {}]
    /\ returned = NoReturn
    /\ sweepRes = NoSweepResult
    /\ procRes = NoProcessorResult
    /\ fundLog = NoFundCall
    /\ hist = [o \in Orders |-> NoHist]
    /\ faults = 0
    /\ feeBps = FEE_BPS
    /\ masterSeed = WalletMasterSeed
    /\ opsSecret = ""
    /\ pc = <<>>

NextBatch ==
    \/ SweepPass
    \/ ProcessorPass

SpecBatch == InitBatch /\ [][NextBatch]_vars

\* What a sweep pass made of order o.
SweepOutcome(w, o) ==
    [order |-> w.orders[o], balance |-> w.payBal[o],
     transfers |-> w.res.transfers[o], swept |-> o \in w.res.swept,
     error |-> o \in w.res.errors]

\* What a scheduling pass made of order o.
TaskOutcome(w, o) ==
    [order |-> w.orders[o],
     rows |-> SelectSeq(w.tasks, LAMBDA r : r.order_id = o),
     budget |-> w.budgetBal[o], error |-> o \in w.res.errors,
     completed |-> o \in w.res.completedOrders]

\* The members of a sequence of orders.
Range(todo) == {todo[i] : i \in DOMAIN todo}

\* C18: failure isolation in the sweep pass and in the scheduling pass:
\* whatever fails on the orders of a batch, every candidate is processed, an
\* order whose processing throws is named in the errors of the pass, and
\* each order comes out as if it were processed alone.
C18_FailureIsolation ==
    /\ \A fs \in [Orders -> SweepFaults] :
          LET todo == OrdersToCheck(orders)
              pass == SweepLoop(SweepWorld, todo, fs)
          IN  /\ pass.res.processed = Len(todo)
              /\ \A o \in Range(todo) :
                    SweepOutcome(pass, o) =
                        SweepOutcome(
                            SweepOrderPayment(SweepWorld, o, fs[o]), o)
    /\ \A readFails \in SUBSET Orders, env \in TickEnvs :
          LET todo == GetOrdersByStatus(orders, "running")
              envs == [o \in Orders |-> env]
              pass == ProcessLoop(EngineWorld, todo, readFails, envs)
          IN  \A o \in Range(todo) :
                /\ o \in readFails => o \in pass.res.errors
                /\ TaskOutcome(pass, o) =
                      TaskOutcome(
                          ProcessLoop(EngineWorld, <<o>>, readFails, envs), o)

\* A sweep pass threw on the first order and swept the second; a scheduling
\* pass threw on one running order and ticked the task of another.
C18_Witness ==
    /\ sweepRes.processed = 2
    /\ sweepRes.errors = {OrderSeq[1]}
    /\ sweepRes.swept = {OrderSeq[2]}
    /\ \E a \in Orders, t \in DOMAIN tasks :
          /\ procRes.errors = {a}
          /\ tasks[t].order_id # a
          /\ tasks[t].status = "failed"

\* C19: the sweep issues no transfer and leaves the order as it is when the
\* payment address holds less than the minimum sweep or less than the
\* expected cost less 1%, whatever the network does; with nothing on the
\* address the order is not counted swept.
C19_NoSweepBelowThreshold ==
    \A fs \in [Orders -> SweepFaults] :
        LET todo == OrdersToCheck(orders)
            pass == SweepLoop(SweepWorld, todo, fs)
        IN  \A o \in Range(todo) :
              LET expected == ExpectedLamports(orders[o].total_cost)
              IN  (\/ payBal[o] < MIN_SWEEP_LAMPORTS
                   \/ payBal[o] < expected - expected \div 100)
                    => /\ pass.res.transfers[o] = 0
                       /\ pass.orders[o] = orders[o]
                       /\ pass.payBal[o] = payBal[o]
                       /\ o \notin pass.res.swept

\* A pass swept one order and left the other, paid one lamport short of the
\* tolerated amount, as it was.
C19_Witness ==
    \E o \in Orders, p \in Orders :
        /\ sweepRes.processed = 2
        /\ sweepRes.swept = {p}
        /\ sweepRes.errors = {}
        /\ orders[o].payment_address = "derived"
        /\ orders[o].payment_signature = NullSignature
        /\ payBal[o] >= MIN_SWEEP_LAMPORTS
        /\ sweepRes.transfers[o] = 0

\* C20: an order whose stored payment address differs from the derived one,
\* or whose keypair cannot be derived, gets no transfer, is not counted
\* swept and keeps its status and receipt, and the rest of the batch is
\* processed: an order that can be swept is swept.
C20_UnderivableAddressSkipped ==
    \A fs \in [Orders -> SweepFaults] :
        LET todo == OrdersToCheck(orders)
            pass == SweepLoop(SweepWorld, todo, fs)
        IN  \A o \in Range(todo) :
              (orders[o].payment_address = "legacy" \/ fs[o] = "derive")
                => /\ pass.res.transfers[o] = 0
                   /\ o \notin pass.res.swept
                   /\ pass.orders[o] = orders[o]
                   /\ pass.payBal[o] = payBal[o]
                   /\ pass.res.processed = Len(todo)
                   /\ \A p \in Range(todo) \ {o} :
                         (/\ fs[p] = "none"
                          /\ orders[p].payment_address # "legacy"
                          /\ ~AlreadySwept(orders[p])
                          /\ payBal[p] >= MIN_SWEEP_LAMPORTS
                          /\ ~BelowTolerance(payBal[p],
                                ExpectedLamports(orders[p].total_cost)))
                            => p \in pass.res.swept

\* A pass skipped the first order, of a legacy address that holds the
\* minimum sweep, and swept the second.
C20_Witness ==
    /\ orders[OrderSeq[1]].payment_address = "legacy"
    /\ orders[OrderSeq[1]].payment_signature = NullSignature
    /\ payBal[OrderSeq[1]] = MIN_SWEEP_LAMPORTS
    /\ sweepRes.processed = 2
    /\ sweepRes.transfers[OrderSeq[1]] = 0
    /\ sweepRes.swept = {OrderSeq[2]}
    /\ sweepRes.errors = {}

(***************************************************************************)
(* The fee split under the configured fee rate.                            *)
(***************************************************************************)

\* FEE_BPS as the environment may set it: not a number, one basis point, the
\* default, 99%, just above 99%, 100%.
FeeRates == {0, 1, FEE_BPS, 9900, 9901, 10000}

\* A draft order (no cost yet) or an order of one task, with what its
\* payment address holds: the minimum sweep and amounts around it for the
\* draft, the tolerated and the full payment for the order.
SplitOrders ==
    {[row |-> [NoOrder EXCEPT !.status = "pending_payment",
                              !.payment_address = "derived"],
      balance |-> b] :
        b \in {MIN_SWEEP_LAMPORTS, MIN_SWEEP_LAMPORTS + 19,
               LAMPORTS_PER_SOL \div 10}}
    \cup
    {[row |-> [NoOrder EXCEPT !.status = "pending_payment",
                              !.payment_address = "derived",
                              !.total_cost = BaseCostPerTask,
                              !.tasks_count = 1, !.duration_hours = 72],
      balance |-> b] :
        b \in {ExpectedLamports(BaseCostPerTask)
                  - ExpectedLamports(BaseCostPerTask) \div 100,
               ExpectedLamports(BaseCostPerTask)}}

InitSplit ==
    /\ feeBps \in FeeRates
    /\ masterSeed = WalletMasterSeed
    /\ opsSecret = ""
    /\ \E x \in SplitOrders :
          /\ orders = [o \in Orders |->
                          IF o = OrderSeq[1] THEN x.row ELSE NoOrder]
          /\ payBal = [o \in Orders |->
                          IF o = OrderSeq[1] THEN x.balance ELSE 0]
          /\ userBal = UserFunds - x.balance
    /\ deposits = 1
    /\ tasks = <<>>
    /\ txs = <<>>
    /\ walletBal = <<>>
    /\ tokenBal = <<>>
    /\ budgetBal = [o \in Orders |-> 0]
    /\ feesBal = 0
    /\ opsBal = 0
    /\ now = 0
    /\ session = OrderSeq[1]
    /\ buttons = [o \in Orders |-> {}]
    /\ returned = NoReturn
    /\ sweepRes = NoSweepResult
    /\ procRes = NoProcessorResult
    /\ fundLog = NoFundCall
    /\ hist = [o \in Orders |-> NoHist]
    /\ faults = 0
    /\ pc = <<>>

NextSplit == SweepPass

SpecSplit == InitSplit /\ [][NextSplit]_vars

\* The sweep of order o goes on to the split: the order is a candidate with
\* no receipt, its address is derivable, and its balance passes the checks.
SweepProceeds(o) ==
    /\ o \in SweepCandidates
    /\ orders[o].payment_signature = NullSignature
    /\ orders[o].payment_address # "legacy"
    /\ payBal[o] >= MIN_SWEEP_LAMPORTS
    /\ ~BelowTolerance(payBal[o], ExpectedLamports(orders[o].total_cost))

\* The split of order o is sound: the two amounts are not negative, with the
\* reserve they make the balance, and a sweep the network does not disturb
\* sends exactly them and overdraws nothing.
SplitIsSound(o) ==
    LET fee == ServiceFeeAmount(payBal[o])
        ops == OpsAmount(payBal[o])
        pass == SweepOrderPayment(SweepWorld, o, "none")
    IN  /\ fee >= 0
        /\ ops >= 0
        /\ fee + ops + NetworkFeeReserve = payBal[o]
        /\ fee + ops <= payBal[o]
        /\ pass.feesBal = feesBal + fee
        /\ pass.opsBal = opsBal + ops
        /\ pass.payBal[o] >= 0
        /\ o \in pass.res.swept

MaxReturns == 2
MaxHandlers == 2

\* Date.now() + 30 * 60 * 1000, in minutes.
DraftMinutes == 30

\* A call of the order service ends; results older than the last
\* MaxReturns are forgotten.
Returns(r) ==
    SubSeq(<<r>> \o returned, 1, Min(MaxReturns, Len(returned) + 1))

Threw(call, o) ==
    [call |-> call, id |-> o, row |-> NoOrder, address |-> <<>>,
     threw |-> TRUE]

\* A faulty return: the row as it was inserted.
ReturnsInserted(call, o, inserted, paymentAddress) ==
    [call |-> call, id |-> o, row |-> inserted, address |-> paymentAddress,
     threw |-> FALSE]

\* The row createOrder and createDraftOrder give back: the inserted row
\* with the derived address.
WithAddress(call, o, inserted, paymentAddress) ==
    [call |-> call, id |-> o,
     row |-> [inserted EXCEPT
                 !.payment_address = AddressColumn(o, paymentAddress)],
     address |-> paymentAddress, threw |-> FALSE]

\* A call of the store that may throw.
CreateFaults == {"none", "insert", "update"}

\* createOrder(orderData): the row is inserted with the placeholder, the
\* address is derived from the new id and written to the row.
CreateOrder(o, volume, duration, fault) ==
    LET draftOrderData ==
            [[c \in DOMAIN NoOrder |->
                IF c \in DOMAIN CalculateOrderCost(volume, duration)
                    THEN CalculateOrderCost(volume, duration)[c]
                    ELSE NoOrder[c]]
             EXCEPT !.status = "pending_payment", !.payment_address = "TEMP"]
        inserted == [orders EXCEPT ![o] = draftOrderData]
        paymentAddress == DerivePaymentAddress(o)
    IN  /\ orders[o].status = "absent"
        /\ IF fault = "insert" THEN
                /\ orders' = orders
                /\ returned' = Returns(Threw("createOrder", o))
           ELSE IF masterSeed = "" \/ fault = "update" THEN
                /\ orders' = inserted
                /\ returned' = Returns(Threw("createOrder", o))
           ELSE /\ orders' = UpdateVolumeOrder(inserted, o,
                    [payment_address |->
                        AddressColumn(o, paymentAddress)])
                /\ returned' = Returns(WithAddress("createOrder", o,
                                    draftOrderData, paymentAddress))
        /\ UNCHANGED <<taskVars, treasuryVars, payBal, now, session, buttons,
                       resVars, envVars, hist, pc>>

\* A selection handler in the background: where it is in
\* createDraftOrderIfReady and getOrCreateDraftOrder, the draft it read or
\* inserted, and whether both volume and duration are selected.
NewHandler(ready) ==
    [at |-> IF session = "none" THEN "cleanup" ELSE "costs",
     draft |-> "none", ready |-> ready]

HandlerGoes(h, at, draft) ==
    pc' = [pc EXCEPT ![h] = [@ EXCEPT !.at = at, !.draft = draft]]

\* handleVolumeSelection / handleDurationSelection: the selection is kept in
\* the session and createDraftOrderIfReady is started in the background.
HandleSelection(ready) ==
    /\ Len(pc) < MaxHandlers
    /\ pc' = Append(pc, NewHandler(ready))
    /\ UNCHANGED <<orders, taskVars, treasuryVars, payBal, now, uiVars,
                   resVars, envVars, hist>>

\* A draft: an order awaiting payment that carries an expiry.
IsDraft(order) ==
    order.status = "pending_payment" /\ order.expires_at # NoTime

\* expireOldDraftOrders(userId): the user's drafts past their expiry are
\* set to expired.
ExpireOldDraftOrders(tbl) ==
    [o \in DOMAIN tbl |->
        IF IsDraft(tbl[o]) /\ tbl[o].expires_at < now
            THEN [tbl[o] EXCEPT !.status = "expired"]
            ELSE tbl[o]]

\* getUserDraftOrder(userId): the user's unexpired drafts, in id order.
GetUserDraftOrder(tbl) ==
    SelectSeq(OrderSeq,
              LAMBDA o : IsDraft(tbl[o]) /\ tbl[o].expires_at > now)

\* cleanupExpiredDraftOrders: a failure is logged and the handler goes on.
DraftCleanup(h, fails) ==
    /\ pc[h].at = "cleanup"
    /\ orders' = IF fails THEN orders ELSE ExpireOldDraftOrders(orders)
    /\ HandlerGoes(h, "lookup", "none")
    /\ UNCHANGED <<taskVars, treasuryVars, payBal, now, uiVars, resVars,
                   envVars, hist>>

\* getUserDraftOrder: the draft found is reused, else one is created.
DraftLookup(h) ==
    LET existingDraft == GetUserDraftOrder(orders)
    IN  /\ pc[h].at = "lookup"
        /\ IF existingDraft # <<>>
               THEN HandlerGoes(h, "extend", Head(existingDraft))
               ELSE HandlerGoes(h, "insert", "none")
        /\ UNCHANGED <<orders, taskVars, treasuryVars, payBal, now, uiVars,
                       resVars, envVars, hist>>

\* The draft read is kept: its expiry is extended and it becomes the
\* session's order.
DraftExtend(h) ==
    LET o == pc[h].draft
        newExpiration == now + DraftMinutes
    IN  /\ pc[h].at = "extend"
        /\ orders' = IF orders[o].status = "absent" THEN orders
                      ELSE UpdateVolumeOrder(orders, o,
                                [expires_at |-> newExpiration])
        /\ session' = o
        /\ returned' = Returns(
                [call |-> "getOrCreateDraftOrder", id |-> o,
                 row |-> [orders[o] EXCEPT !.expires_at = newExpiration],
                 address |-> <<>>, threw |-> FALSE])
        /\ HandlerGoes(h, "costs", o)
        /\ UNCHANGED <<taskVars, treasuryVars, payBal, now, buttons, resVars,
                       envVars, hist>>

\* The row createDraftOrder inserts.
DraftOrderData ==
    [NoOrder EXCEPT !.status = "pending_payment", !.payment_address = "TEMP",
                    !.expires_at = now + DraftMinutes]

\* createDraftOrder: the insert.  A throw ends the handler in the catch of
\* createDraftOrderIfReady.
DraftInsert(h, o, fails) ==
    /\ pc[h].at = "insert"
    /\ orders[o].status = "absent"
    /\ IF fails
          THEN /\ orders' = orders
               /\ returned' = Returns(Threw("createDraftOrder", o))
               /\ HandlerGoes(h, "done", "none")
          ELSE /\ orders' = [orders EXCEPT ![o] = DraftOrderData]
               /\ returned' = returned
               /\ HandlerGoes(h, "address", o)
    /\ UNCHANGED <<taskVars, treasuryVars, payBal, now, session, buttons,
                   resVars, envVars, hist>>

\* createDraftOrder: the address is derived and written, and the draft
\* becomes the session's order.
DraftAddress(h, fails) ==
    LET o == pc[h].draft
        paymentAddress == DerivePaymentAddress(o)
    IN  /\ pc[h].at = "address"
        /\ IF masterSeed = "" \/ fails
              THEN /\ orders' = orders
                   /\ session' = session
                   /\ returned' = Returns(Threw("createDraftOrder", o))
                   /\ HandlerGoes(h, "done", o)
              ELSE /\ orders' =
                        IF orders[o].status = "absent" THEN orders
                        ELSE UpdateVolumeOrder(orders, o,
                                [payment_address |->
                                    AddressColumn(o, paymentAddress)])
                   /\ session' = o
                   /\ returned' = Returns(WithAddress("createDraftOrder", o,
                            [DraftOrderData EXCEPT
                                !.expires_at = orders[o].expires_at],
                            paymentAddress))
                   /\ HandlerGoes(h, "costs", o)
        /\ UNCHANGED <<taskVars, treasuryVars, payBal, now, buttons, resVars,
                       envVars, hist>>

\* createDraftOrderIfReady: with both selections made, the session's order
\* takes the costs and a new expiry.
DraftCosts(h, volume, duration) ==
    /\ pc[h].at = "costs"
    /\ orders' =
          IF pc[h].ready /\ session # "none"
                /\ orders[session].status # "absent"
             THEN UpdateVolumeOrder(
                    UpdateVolumeOrder(orders, session,
                                      CalculateOrderCost(volume, duration)),
                    session, [expires_at |-> now + DraftMinutes])
             ELSE orders
    /\ HandlerGoes(h, "done", pc[h].draft)
    /\ UNCHANGED <<taskVars, treasuryVars, payBal, now, uiVars, resVars,
                   envVars, hist>>

HandlerSteps ==
    \E h \in DOMAIN pc :
        \/ \E fails \in BOOLEAN : DraftCleanup(h, fails)
        \/ DraftLookup(h)
        \/ DraftExtend(h)
        \/ \E o \in Orders, fails \in BOOLEAN : DraftInsert(h, o, fails)
        \/ \E fails \in BOOLEAN : DraftAddress(h, fails)
        \/ \E v \in VolumePackages, d \in Durations : DraftCosts(h, v, d)

\* Orders are created: by createOrder, and by the selection handlers of one
\* user, which may overlap; drafts expire as time passes.
NextCreate ==
    \/ \E o \in Orders, v \in VolumePackages, d \in Durations,
          fault \in CreateFaults : CreateOrder(o, v, d, fault)
    \/ \E ready \in BOOLEAN : HandleSelection(ready)
    \/ HandlerSteps
    \/ Advance

\* WALLET_MASTER_SEED as an environment may set it: configured, or not.
MasterSeeds == {WalletMasterSeed, ""}

\* The store and the chain before the first order, FEE_BPS at its default.
EmptyStore ==
    /\ orders = [o \in Orders |-> NoOrder]
    /\ payBal = [o \in Orders |-> 0]
    /\ budgetBal = [o \in Orders |-> 0]
    /\ hist = [o \in Orders |-> NoHist]
    /\ buttons = [o \in Orders |-> {}]
    /\ tasks = <<>>
    /\ txs = <<>>
    /\ walletBal = <<>>
    /\ tokenBal = <<>>
    /\ feesBal = 0
    /\ opsBal = 0
    /\ now = 0
    /\ session = "none"
    /\ returned = NoReturn
    /\ sweepRes = NoSweepResult
    /\ procRes = NoProcessorResult
    /\ fundLog = NoFundCall
    /\ userBal = UserFunds
    /\ deposits = 0
    /\ faults = 0
    /\ feeBps = FEE_BPS
    /\ pc = <<>>

\* No order yet, under either configuration.
InitCreate ==
    /\ masterSeed \in MasterSeeds
    /\ opsSecret = ""
    /\ EmptyStore

SpecCreate == InitCreate /\ [][NextCreate]_vars

\* C23: every order createOrder or createDraftOrder gives back carries the
\* address derived from its own id, and the row stored under that id holds
\* the same address; the placeholder is never given back.
C23_ReturnedOrderHasDerivedAddress ==
    [][(/\ returned' # returned
        /\ Head(returned').call \in {"createOrder", "createDraftOrder"}
        /\ ~Head(returned').threw)
       => LET r == Head(returned')
          IN  /\ r.address = DerivePaymentAddress(r.id)
              /\ r.row.payment_address = "derived"
              /\ r.row.payment_address # "TEMP"
              /\ orders'[r.id].payment_address = r.row.payment_address]_vars

\* Both calls have given back an order.
C23_Witness ==
    /\ Len(returned) = 2
    /\ {returned[1].call, returned[2].call}
            = {"createOrder", "createDraftOrder"}
    /\ ~returned[1].threw /\ ~returned[2].threw
    /\ \A i \in 1..2 : orders[returned[i].id].payment_address = "derived"

(***************************************************************************)
(* Addresses and keys.                                                     *)
(***************************************************************************)

\* C22: for every task the stored wallet_address is the public key of the
\* keypair the scheduler derives from the task's id and trades with; it is
\* never a generated address.
C22_WalletAddressIsDerived ==
    \A t \in DOMAIN tasks : tasks[t].wallet_address = TradingAddress(t)

\* Order ids and master seeds the derivation is called with.
DeriveIds == {"o1", "o2", "o3", "o4", "o5", "o6"}
DeriveSeeds == MasterSeeds \cup {"other seed"}

InitDerive ==
    /\ masterSeed \in DeriveSeeds
    /\ opsSecret = ""
    /\ EmptyStore

\* derivePaymentAddress(orderId) is called: it throws without a master
\* seed, else gives the public key of the derived keypair.
CallDerivePaymentAddress(orderId) ==
    /\ returned' = Returns(
            IF masterSeed = "" THEN Threw("derivePaymentAddress", orderId)
            ELSE [call |-> "derivePaymentAddress", id |-> orderId,
                  row |-> NoOrder,
                  address |-> DerivePaymentAddress(orderId),
                  threw |-> FALSE])
    /\ UNCHANGED <<orders, taskVars, treasuryVars, payBal, now, session,
                   buttons, resVars, envVars, hist, pc>>

NextDerive == \E orderId \in DeriveIds : CallDerivePaymentAddress(orderId)

SpecDerive == InitDerive /\ [][NextDerive]_vars

OpsSecrets == {"", "imported"}

InitCustody ==
    /\ masterSeed = WalletMasterSeed
    /\ opsSecret \in OpsSecrets
    /\ EmptyStore

\* An order is placed, paid, swept and started, and the admin funds its
\* budget.
NextCustody ==
    \/ NextSweep
    \/ \E o \in Orders, a \in FundAmounts : AdminFund(o, a)

SpecCustody == InitCustody /\ [][NextCustody]_vars

\* No row of the store holds a secret key: an order's payment_address and a
\* task's wallet_address are public keys (or the placeholder), an order's
\* receipt holds transfer signatures and a transaction row its type.
NoKeyMaterialStored ==
    /\ \A o \in Orders :
          /\ orders[o].payment_address # "secret"
          /\ \A i \in DOMAIN orders[o].payment_signature :
                orders[o].payment_signature[i].sig \in Nat
    /\ \A t \in DOMAIN tasks :
          /\ tasks[t].wallet_address[1] # "secret"
          /\ tasks[t].wallet_address # DeriveTradingKeypair(t).secretKey
          /\ \A i \in DOMAIN txs[t] : txs[t][i] \in {"buy", "sell"}

\* The funding route has sent lamports to an order's budget.
BudgetFunded == \E o \in Orders : budgetBal'[o] > budgetBal[o]

UnexpiredDrafts ==
    {o \in Orders : IsDraft(orders[o]) /\ orders[o].expires_at > now}

\* C26: the user has at most one non-expired draft order at any time, also
\* when two selection handlers of the user overlap.
C26_AtMostOneDraft == Cardinality(UnexpiredDrafts) <= 1

\* An order is placed, paid, swept and started while the customer looks at
\* the orders list and uses its delete buttons.
NextDelete ==
    \/ NextSweep
    \/ ShowOrdersList
    \/ DeleteButtons

SpecDelete == Init /\ [][NextDelete]_vars

\* C27: an order's row goes only while its status is pending_payment; an
\* order that was paid, started or finished is never deleted, and its
\* tasks are never deleted with it.
C27_DeletedOnlyWhilePending ==
    [][\A o \in Orders :
          /\ (orders[o].status # "absent" /\ orders'[o].status = "absent")
                => orders[o].status = "pending_payment"
          /\ \A t \in DOMAIN tasks :
                (tasks[t].order_id = o /\ tasks'[t].status = "deleted")
                    => orders[o].status = "pending_payment"]_vars

(***************************************************************************)
(* Starting an order.                                                      *)
(***************************************************************************)

\* An order is placed, paid and swept; scheduling passes start and tick it
\* as time passes, and the store may reject calls or go down during a pass.
NextStart ==
    \/ NextSweep
    \/ ProcessorPassOutage
    \/ Advance

SpecStart == Init /\ [][NextStart]_vars

\* The pass of this step tried to start o and the start threw.
StartThrew(o) ==
    /\ orders[o].status = "payment_confirmed"
    /\ <<orders, tasks, procRes, faults>>' # <<orders, tasks, procRes, faults>>
    /\ o \in procRes'.startErrors

\* The order ended failed in this step, and the error reached the handler.
EndsFailed(o) ==
    /\ orders'[o].status = "failed"
    /\ orders'[o].completed_at = now
    /\ o \notin procRes'.started

\* A failed order has no task, and the pass of this step neither created
\* tasks for it nor ticked one.
FailedOrderLeftAlone ==
    \A o \in Orders :
        orders[o].status = "failed"
            => /\ GetOrderTasks(tasks, o) = {}
               /\ GetOrderTasks(tasks', o) = {}
               /\ orders'[o].status = "failed"

\* C28: whenever the start of an order throws after the order was set
\* running, the order ends failed with completed_at set and the error
\* reaches the caller; and no later pass creates or ticks tasks for a failed
\* order, which stays failed.
C28_FailedStartEndsFailed ==
    [][/\ \A o \in Orders : StartThrew(o) => EndsFailed(o)
       /\ FailedOrderLeftAlone]_vars

(***************************************************************************)
(* Timestamps.                                                             *)
(***************************************************************************)

\* A running order: the customer and the admin use the buttons and routes
\* that write its status as time passes.
NextStamps ==
    \/ Buttons
    \/ \E o \in Orders : AdminResume(o)
    \/ Advance

SpecStamps == InitSched /\ [][NextStamps]_vars

\* C29: started_at is written only when the order first becomes running and
\* completed_at only when it reaches a terminal status, and a timestamp that
\* is set is not overwritten by a later resume, restart or repeated step.
C29_TimestampsWrittenOnce ==
    [][\A o \in Orders :
          /\ orders'[o].started_at # orders[o].started_at
                => /\ orders[o].started_at = NoTime
                   /\ orders[o].status # "running"
          /\ orders'[o].completed_at # orders[o].completed_at
                => /\ orders[o].completed_at = NoTime
                   /\ orders[o].status \notin TerminalStatus
                   /\ orders'[o].status \in TerminalStatus]_vars

(***************************************************************************)
(* A scheduling pass that is killed.                                       *)
(***************************************************************************)

\* A task of a running order that failed at time 0: passes run to their end
\* or are killed, the admin resumes and funds the order, minutes pass.
NextAbort ==
    \/ ProcessorPass
    \/ ProcessorPassAborted
    \/ \E o \in Orders : AdminResume(o)
    \/ \E o \in Orders, a \in FundAmounts : AdminFund(o, a)
    \/ Minute

SpecAbort == InitSched /\ [][NextAbort]_vars

\* The row of task t after its tick was killed at `at`.
RowAfterAbort(t, env, at) ==
    TickAborted(EngineWorld, t, tasks[t], tasks[t].order_id, env, at).tasks[t]

\* C30: when a scheduling pass is killed at any point of the tick of a task,
\* before the progress update is written, the task is still due for the
\* next pass, and the row it is left with is one the due check passes again:
\* not completed, its last transaction not in the future.
C30_AbortedTickStaysDue ==
    \A t \in DOMAIN tasks, env \in TickEnvs, at \in AbortPoints :
        LET after == RowAfterAbort(t, env, at)
        IN  (/\ orders[tasks[t].order_id].status = "running"
             /\ TickIsDue(tasks[t]))
                => /\ TickIsDue(after)
                   /\ after.status # "completed"
                   /\ \/ after.last_transaction_at = NoTime
                      \/ after.last_transaction_at <= now

(***************************************************************************)
(* The price of an order.                                                  *)
(***************************************************************************)

\* Volume targets in dollars and durations in hours the cost is asked for:
\* none, the smallest, the packages, the edges of a task and of the table.
CostVolumes == {0, 1, 75000, 83334, 250000, 1000000, 5000000}
CostDurations == {1, 6, 7, 12, 24, 72, 168}

\* calculateOrderCost(volume, duration) is called and answers.
CallCalculateOrderCost(volume, duration) ==
    LET cost == CalculateOrderCost(volume, duration)
    IN  /\ returned' = Returns(
                [call |-> "calculateOrderCost",
                 id |-> [volume |-> volume, duration |-> duration],
                 row |-> [tasksCount |-> cost.tasks_count,
                          costPerTask |-> BaseCostPerTask,
                          totalCost |-> cost.total_cost],
                 address |-> "", threw |-> FALSE])
        /\ UNCHANGED <<orders, taskVars, treasuryVars, payBal, now, session,
                       buttons, resVars, envVars, hist, pc>>

NextCost ==
    \E volume \in CostVolumes, duration \in CostDurations :
        CallCalculateOrderCost(volume, duration)

\* Nothing is stored: the cost depends on its two arguments alone.
InitCost ==
    /\ masterSeed = WalletMasterSeed
    /\ opsSecret = ""
    /\ EmptyStore

SpecCost == InitCost /\ [][NextCost]_vars

\* C31: for every volume target above 0 and duration above 0 the cost has at
\* least one task and a total of exactly tasks times the cost of a task.
C31_CostIsTasksTimesPrice ==
    \A i \in DOMAIN returned :
        (/\ returned[i].call = "calculateOrderCost"
         /\ returned[i].id.volume > 0
         /\ returned[i].id.duration > 0)
        => /\ returned[i].row.tasksCount >= 1
           /\ returned[i].row.totalCost
                = returned[i].row.tasksCount * returned[i].row.costPerTask

\* The smallest package over seven days was priced: one task.
C31_Witness ==
    \E i \in DOMAIN returned :
        /\ returned[i].call = "calculateOrderCost"
        /\ returned[i].id = [volume |-> 75000, duration |-> 168]
        /\ returned[i].row.tasksCount = 1
        /\ returned[i].row.totalCost = BaseCostPerTask

\* C32: the task count is monotone in both inputs: at one duration a larger
\* volume never gives fewer tasks, and at one volume a shorter duration
\* never gives fewer tasks.
C32_TasksMonotone ==
    \A i \in DOMAIN returned, j \in DOMAIN returned :
        (/\ returned[i].call = "calculateOrderCost"
         /\ returned[j].call = "calculateOrderCost"
         /\ returned[i].id.volume >= returned[j].id.volume
         /\ returned[i].id.duration <= returned[j].id.duration)
        => returned[i].row.tasksCount >= returned[j].row.tasksCount

\* A million dollars was priced over six hours and over seven days, and the
\* short order has more tasks.
C32_Witness ==
    \E i \in DOMAIN returned, j \in DOMAIN returned :
        /\ returned[i].call = "calculateOrderCost"
        /\ returned[j].call = "calculateOrderCost"
        /\ returned[i].id = [volume |-> 1000000, duration |-> 6]
        /\ returned[j].id = [volume |-> 1000000, duration |-> 168]
        /\ returned[i].row.tasksCount > returned[j].row.tasksCount

(***************************************************************************)
(* Two invocations of the processor at once.                               *)
(***************************************************************************)

\* The paid order before its start, and the one task of the started order
\* one cycle short of its total, its last tick failed at time 0; the retry
\* cooldown has passed since.
ConfirmedOrder ==
    [PaidOrder EXCEPT !.status = "payment_confirmed", !.started_at = NoTime]
LastCycleRows ==
    UpdateVolumeTask(NewTaskRows(OrderSeq[1], PaidOrder), 1,
        [status |-> "failed", last_transaction_at |-> 0,
         cycles_completed |-> TotalCycles - 1])

\* A budget that covers the funding of two first buys and their fees, and
\* not the reserve after them.
BudgetForTwo == 4 * MinTradeLamports + BudgetReserve \div 2

InitOverlap ==
    \E started \in BOOLEAN :
        LET rows == IF started THEN LastCycleRows ELSE <<>>
        IN  /\ feeBps = FEE_BPS
            /\ masterSeed = WalletMasterSeed
            /\ opsSecret = ""
            /\ orders = [o \in Orders |->
                            IF o # OrderSeq[1] THEN NoOrder
                            ELSE IF started THEN PaidOrder
                            ELSE ConfirmedOrder]
            /\ tasks = rows
            /\ txs = [t \in DOMAIN rows |-> <<>>]
            /\ walletBal = [t \in DOMAIN rows |-> 0]
            /\ tokenBal = [t \in DOMAIN rows |-> 0]
            /\ payBal = [o \in Orders |-> 0]
            /\ budgetBal = [o \in Orders |-> 0]
            /\ feesBal = ServiceFeeAmount(ExpectedLamports(BaseCostPerTask))
            /\ opsBal = OpsAmount(ExpectedLamports(BaseCostPerTask))
            /\ now = RetryCooldownMinutes
            /\ session = OrderSeq[1]
            /\ buttons = [o \in Orders |-> {}]
            /\ returned = NoReturn
            /\ sweepRes = NoSweepResult
            /\ procRes = NoProcessorResult
            /\ fundLog = NoFundCall
            /\ userBal = UserFunds - ExpectedLamports(BaseCostPerTask)
            /\ deposits = 1
            /\ hist = [o \in Orders |->
                          IF o = OrderSeq[1]
                          THEN [feeSent |-> 1, opsSent |-> 1] ELSE NoHist]
            /\ faults = 0
            /\ pc = <<>>

\* Invocations of the processor overlap while the admin funds the budget of
\* the order.
NextOverlap ==
    \/ RunStart
    \/ RunSteps
    \/ \E o \in Orders : AdminFund(o, BudgetForTwo)

SpecOverlap == InitOverlap /\ [][NextOverlap]_vars

\* C33: when two scheduling passes overlap on one order, in every
\* interleaving the cycles_completed of a task never decreases and a task
\* that is completed never goes back to running or failed.
C33_OverlapKeepsProgress ==
    [][\A t \in DOMAIN tasks :
          /\ tasks'[t].cycles_completed >= tasks[t].cycles_completed
          /\ tasks[t].status = "completed"
                => tasks'[t].status \notin {"running", "failed"}]_vars

\* C34: in every sequence or overlap of ticks and passes, a funding transfer
\* out of an order's budget is at most the balance of the budget at the
\* moment of the transfer less the reserve, so a budget at or above the
\* reserve does not drop below it through funding.
C34_FundingWithinBudget ==
    [][\A o \in Orders :
          budgetBal'[o] < budgetBal[o]
            => /\ budgetBal[o] - budgetBal'[o] - TxFee
                    <= budgetBal[o] - BudgetReserve
               /\ budgetBal[o] >= BudgetReserve
                    => budgetBal'[o] >= BudgetReserve]_vars

\* Invocation p calls startVolumeGeneration(o) in this step.
StartCalled(p, o) ==
    /\ pc[p].at = "start"
    /\ pc[p].pending # <<>>
    /\ Head(pc[p].pending) = o
    /\ pc'[p].pending = Tail(pc[p].pending)

\* C35: startVolumeGeneration on an order that is not payment_confirmed, one
\* that an overlapping pass has set running or one that is completed,
\* fails and changes nothing: the row of the order with its status and
\* timestamps stays as it was and no task is created.
C35_StartRefusedLeavesOrder ==
    [][\A p \in DOMAIN pc, o \in Orders :
          (StartCalled(p, o) /\ orders[o].status # "payment_confirmed")
            => /\ orders'[o] = orders[o]
               /\ tasks' = tasks]_vars

(***************************************************************************)
(* A funding transfer that fails.                                          *)
(***************************************************************************)

\* The tick of task t has to fund the wallet, and the budget allows it.
FundingAttempted(t, env) ==
    LET required == RequiredFor(t, env)
    IN  /\ walletBal[t] < required
        /\ ToFund(required, walletBal[t], budgetBal[tasks[t].order_id]) > 0

\* C36: if the transfer that funds the wallet of a task fails, the tick
\* fails: no buy or sell is submitted in it, cycles_completed is not
\* incremented and the task is marked failed.
C36_LostFundingFailsTick ==
    \A t \in DOMAIN tasks, env \in TickEnvs :
        LET task == tasks[t]
            o == task.order_id
            after == TickTask(EngineWorld, t, task, o, env)
        IN  (/\ orders[o].status = "running"
             /\ TickIsDue(task)
             /\ env.fund = "lost"
             /\ FundingAttempted(t, env))
                => /\ after.txs[t] = txs[t]
                   /\ after.tasks[t].cycles_completed = task.cycles_completed
                   /\ after.tasks[t].status = "failed"

(***************************************************************************)
(* A pause while a pass is under way.                                      *)
(***************************************************************************)

\* The customer lists the orders and pauses one while invocations of the
\* processor are between two awaits.
NextPause ==
    \/ RunStart
    \/ RunSteps
    \/ ShowOrdersList
    \/ \E o \in Orders : HandlePauseOrder(o)
    \/ \E o \in Orders : AdminFund(o, BudgetForTwo)

SpecPause == InitOverlap /\ [][NextPause]_vars

\* C37: a tick is started only while the stored status of its order is
\* running: a scheduling pass neither executes nor modifies the tasks of a
\* paused, or otherwise not running, order.
C37_OnlyRunningOrdersTicked ==
    [][\A t \in DOMAIN tasks :
          (\/ tasks'[t] # tasks[t]
           \/ txs'[t] # txs[t]
           \/ walletBal'[t] # walletBal[t]
           \/ tokenBal'[t] # tokenBal[t])
            => orders[tasks[t].order_id].status = "running"]_vars

(***************************************************************************)
(* The sweep of a draft.                                                   *)
(***************************************************************************)

\* The sweep writes its receipt to order o or confirms its payment.
SweptOrConfirmed(o) ==
    \/ orders'[o].payment_signature # orders[o].payment_signature
    \/ /\ orders'[o].status = "payment_confirmed"
       /\ orders[o].status # "payment_confirmed"

\* C38: only a fully configured order is confirmed by the sweep: an order
\* that still holds the values of a draft, a total_cost or a tasks_count of
\* 0, is never swept and never moved to payment_confirmed.
C38_DraftNeverConfirmed ==
    [][\A o \in Orders :
          SweptOrConfirmed(o)
            => /\ orders[o].total_cost > 0
               /\ orders[o].tasks_count > 0]_vars

(***************************************************************************)
(* Progress: passes keep coming, faults run out, the budget is kept up.    *)
(***************************************************************************)

\* The budget of o cannot fund a first buy and keep its reserve.
BudgetShort(o) == MaxFund(budgetBal[o]) < 2 * MinTradeLamports

\* A task of a running order is due.
SomeTaskDue ==
    \E t \in DOMAIN tasks :
        /\ orders[tasks[t].order_id].status = "running"
        /\ TickIsDue(tasks[t])

\* The admin keeps the budget of a running order up.
TopUp ==
    \E o \in Orders, a \in FundAmounts :
        /\ orders[o].status = "running"
        /\ BudgetShort(o)
        /\ AdminFund(o, a)

\* A scheduling pass over orders whose budgets cover their funding.
FundedPass ==
    /\ \A o \in Orders : orders[o].status = "running" => ~BudgetShort(o)
    /\ ProcessorPass

\* The trigger fires more often than a task falls due: an interval passes
\* only once the due ticks have been made.  The clock stops after the
\* intervals that the cycles of a task and the faults of the network take.
Interval ==
    /\ ~SomeTaskDue
    /\ \A o \in Orders : orders[o].status = "running" => ~BudgetShort(o)
    /\ now + ClockStep <= (TotalCycles + MaxFaults) * ClockStep
    /\ now' = now + ClockStep
    /\ UNCHANGED <<orders, taskVars, treasuryVars, payBal, uiVars, resVars,
                   envVars, hist, pc>>

NextLive ==
    \/ TopUp
    \/ FundedPass
    \/ Interval

\* A pass has a tick to make.
PassCanAct ==
    /\ SomeTaskDue
    /\ \A o \in Orders : orders[o].status = "running" => ~BudgetShort(o)

\* The trigger keeps firing: a pass with a tick to make is not put off for
\* ever.  This is weak fairness of the pass, asked only where a task is due.
PassesKeepOccurring == []<>~PassCanAct \/ []<><<FundedPass>>_vars

SpecLive ==
    /\ InitSched
    /\ [][NextLive]_vars
    /\ WF_vars(TopUp)
    /\ WF_vars(Interval)
    /\ PassesKeepOccurring

\* Order o is completed and each of its tasks has made all its cycles.
AllCyclesMade(o) ==
    /\ orders[o].status = "completed"
    /\ \A t \in GetOrderTasks(tasks, o) :
          tasks[t].cycles_completed = tasks[t].total_cycles

\* C39: if scheduling passes keep occurring, the tick of every task succeeds
\* after finitely many failures and the budget covers the funding, then a
\* running order with at least one task eventually is completed with every
\* task at cycles_completed = total_cycles.
C39_RunningOrderCompletes ==
    \A o \in Orders :
        (orders[o].status = "running" /\ GetOrderTasks(tasks, o) # {})
            ~> AllCyclesMade(o)

\* The order is completed, all cycles made, after ticks that failed.
C39_Witness ==
    /\ AllCyclesMade(OrderSeq[1])
    /\ GetOrderTasks(tasks, OrderSeq[1]) # {}
    /\ faults = MaxFaults

====
